---- MODULE Spec2Model ----
(***************************************************************************)
(* A model of the adaptive honeypot: the three asyncio protocol handlers   *)
(* (HTTP, SSH, FTP), the fingerprint and classification functions, and the *)
(* shared EventLogger (in-memory list plus SQLite table).                  *)
(*                                                                         *)
(* Byte strings and strings are sequences of tokens.  A token is an atomic *)
(* run of characters: "SP" is a space, "CRLF" a line terminator, "BAD" a   *)
(* byte that is not valid UTF-8, "REPL" the replacement character U+FFFD,  *)
(* ":" a colon, "b" one body byte; every other token is a word.            *)
(* Optional values are sequences of length 0 (None) or 1 (the value).      *)
(* One action is the code a handler runs between two awaits: asyncio runs  *)
(* it without interleaving any other task.                                 *)
(***************************************************************************)
EXTENDS Integers, Sequences, FiniteSets, TLC

VARIABLES
    sup,        \* the supervisor: which listeners accept, and whether it was interrupted
    clock,      \* the wall clock datetime.utcnow() reads, in whole seconds
    history,    \* AsyncHTTPHoneypot.history: ip -> list of {"timestamp": ts}
    events,     \* EventLogger.events: the in-memory list
    db,         \* the committed rows of the SQLite table events
    txn,        \* rows inserted on the connection and not yet committed
    dbmode,     \* what SQLite does with the next write: "ok" or a failure
    accepted,   \* per connection slot: the connections accepted on it so far
    net,        \* per connection: bytes the client sent that are still unread
    peer,       \* per connection: the client's side, and the chunks it has sent
    http,       \* per HTTP connection: the handler task's state
    ssh,        \* per SSH connection: the handler task's state
    ftp,        \* per FTP connection: the handler task's state
    lock,       \* EventLogger._lock: the thread that holds it, if any
    thr         \* per thread that calls log_event directly: where it is in the call

vars == <<sup, clock, history, events, db, txn, dbmode, accepted, net, peer, http, ssh, ftp, lock, thr>>

---------------------------------------------------------------------------
(* Bounds of the model *)

\* the clock stops advancing at MaxTime
MaxTime == 3
\* HTTP connections accepted in the rate specification
MaxRateConn == 6
\* chunks a client sends on one HTTP connection
MaxHttpSend == 2
\* chunks a client sends on one SSH connection
MaxSshSend == 3
\* chunks a client sends on one FTP connection
MaxFtpSend == 3
\* HTTP connections accepted on the first slot in the concurrency specification
MaxConcConn == 4
\* chunks the client sends in the fingerprint specification
MaxDetectSend == 3
\* direct calls of log_event in the store specification
MaxStoreCalls == 3
\* connections of the busier of two HTTP clients at different addresses
MaxIsoConn == 5
\* log_event calls of the busiest thread that calls the logger directly
MaxThreadCalls == 2
\* chunks the client sends in the request body specification
MaxBodySend == 2

(* Program constants *)

\* fingerprint.py: the rapid-request rule looks at history[-5:]
WINDOW == 5
\* fingerprint.py: ... and fires when the span is under 2 seconds
BOT_SPAN == 2
\* ssh_honeypot.py: while attempts < 3
MAX_ATTEMPTS == 3

HTTP_PORT == 8080
SSH_PORT == 2222
FTP_PORT == 2121

IPs == {"10.0.0.1", "10.0.0.2"}
HttpConns == {"h1", "h2"}
SshConns == {"s1", "s2"}
FtpConns == {"f1", "f2"}
Conns == HttpConns \cup SshConns \cup FtpConns
Services == {"http", "ssh", "ftp"}

---------------------------------------------------------------------------
(* Optional values, strings and bytes *)

None == <<>>
Some(x) == <<x>>
\* Python truthiness of an Optional[str]: neither None nor ""
Truthy(opt) == opt # <<>> /\ opt[1] # <<>>

WS == {"SP", "CRLF"}
LINE_END == {"CRLF"}

\* bytes.decode(): raises UnicodeDecodeError on an invalid byte
DecodeFails(bs) == \E i \in 1..Len(bs) : bs[i] = "BAD"
\* bytes.decode(errors="replace")
DecodeReplace(bs) == [i \in 1..Len(bs) |-> IF bs[i] = "BAD" THEN "REPL" ELSE bs[i]]

RECURSIVE LStrip(_, _)
LStrip(s, chars) ==
    IF s # <<>> /\ Head(s) \in chars THEN LStrip(Tail(s), chars) ELSE s

RECURSIVE RStrip(_, _)
RStrip(s, chars) ==
    IF s # <<>> /\ s[Len(s)] \in chars
    THEN RStrip(SubSeq(s, 1, Len(s) - 1), chars) ELSE s

\* str.strip() with chars = WS, bytes.strip(b"\r\n") with chars = LINE_END
Strip(s, chars) == RStrip(LStrip(s, chars), chars)

RECURSIVE SplitGo(_, _, _)
SplitGo(rest, cur, acc) ==
    LET flush == IF cur # <<>> THEN Append(acc, cur) ELSE acc
    IN  IF rest = <<>> THEN flush
        ELSE IF Head(rest) \in WS THEN SplitGo(Tail(rest), <<>>, flush)
        ELSE SplitGo(Tail(rest), Append(cur, Head(rest)), acc)

\* str.split(): the words between runs of whitespace
Split(s) == SplitGo(s, <<>>, <<>>)

\* index of the first occurrence of tok in s, 0 when there is none
First(s, tok) ==
    IF \E i \in 1..Len(s) : s[i] = tok
    THEN CHOOSE i \in 1..Len(s) : s[i] = tok /\ \A j \in 1..(i - 1) : s[j] # tok
    ELSE 0

\* str.split(sep, 1): at most one split, at the first sep
Split1(s, sep) ==
    LET i == First(s, sep)
    IN  IF i = 0 THEN <<s>>
        ELSE <<SubSeq(s, 1, i - 1), SubSeq(s, i + 1, Len(s))>>

LowerTok(t) ==
    CASE t = "SQLMAP" -> "sqlmap"
      [] t = "Nikto" -> "nikto"
      [] t = "Nmap" -> "nmap"
      [] t = "WP-LOGIN" -> "wp-login"
      [] t = "User-Agent" -> "user-agent"
      [] t = "SELECT" -> "select"
      [] t = "USER" -> "user"
      [] t = "PASS" -> "pass"
      [] t = "QUIT" -> "quit"
      [] OTHER -> t

UpperTok(t) ==
    CASE t = "user" -> "USER"
      [] t = "pass" -> "PASS"
      [] t = "pwd" -> "PWD"
      [] t = "list" -> "LIST"
      [] t = "quit" -> "QUIT"
      [] t = "Quit" -> "QUIT"
      [] t = "sqlmap" -> "SQLMAP"
      [] OTHER -> t

\* str.lower() and str.upper()
Lower(s) == [i \in 1..Len(s) |-> LowerTok(s[i])]
Upper(s) == [i \in 1..Len(s) |-> UpperTok(s[i])]

\* pat in s
Contains(s, pat) == \E i \in 1..Len(s) : s[i] = pat

Min2(a, b) == IF a < b THEN a ELSE b
MaxOf(S) == CHOOSE x \in S : \A y \in S : y <= x
MinOf(S) == CHOOSE x \in S : \A y \in S : x <= y

---------------------------------------------------------------------------
(* detectors/fingerprint.py *)

\* the scanner_signatures dict, in insertion (= iteration) order
scanner_signatures ==
    << <<"sqlmap", <<"sqlmap">> >>,
       <<"nikto", <<"nikto">> >>,
       <<"nmap", <<"nmap", "libwww-perl", "python-requests">> >>,
       <<"w3af", <<"w3af">> >>,
       <<"acunetix", <<"acunetix">> >>,
       <<"nessus", <<"nessus">> >> >>

sql_keywords == <<"select", "union", "sleep", "benchmark", "load_file", "into outfile">>

UA_KEY == <<"User-Agent">>
CL_KEY == <<"Content-Length">>

SigMatches(i, ua) ==
    \E j \in 1..Len(scanner_signatures[i][2]) :
        Contains(ua, scanner_signatures[i][2][j])

detect_tool(headers, payload, path, request_type) ==
    LET ua0 == IF UA_KEY \in DOMAIN headers THEN Lower(headers[UA_KEY]) ELSE <<>>
        ua == IF ua0 = <<>> /\ Truthy(payload) THEN Lower(payload[1]) ELSE ua0
        hits == {i \in 1..Len(scanner_signatures) : SigMatches(i, ua)}
    IN  IF hits # {} THEN Some(scanner_signatures[MinOf(hits)][1])
        ELSE IF Truthy(path)
                /\ (Contains(Lower(path[1]), "wp-login")
                    \/ Contains(Lower(path[1]), "wp-admin"))
        THEN Some("wordpress_scanner")
        ELSE IF Truthy(path) /\ Contains(Lower(path[1]), "phpmyadmin")
        THEN Some("phpmyadmin_scanner")
        ELSE IF Truthy(path) /\ Contains(Lower(path[1]), "/etc/passwd")
        THEN Some("file_inclusion")
        ELSE IF Truthy(payload)
                /\ \E k \in 1..Len(sql_keywords) :
                       Contains(Lower(payload[1]), sql_keywords[k])
        THEN Some("sql_injection")
        ELSE None

\* history[-n:]
LastN(h, n) == IF Len(h) <= n THEN h ELSE SubSeq(h, Len(h) - n + 1, Len(h))

\* a classifier that applies the rapid-request rule before looking at the tool
classify_client_rate_first(hist, current_tool) ==
    IF Len(hist) >= WINDOW
       /\ LET times == {LastN(hist, WINDOW)[i].timestamp : i \in 1..WINDOW}
          IN  MaxOf(times) - MinOf(times) < BOT_SPAN
    THEN "bot"
    ELSE IF current_tool # <<>> /\ current_tool[1] # "" THEN "scanner"
    ELSE "human"

\* a classifier that measures the span of the whole history, not of the last 5
classify_client_whole_history(hist, current_tool) ==
    IF current_tool # <<>> /\ current_tool[1] # "" THEN "scanner"
    ELSE IF Len(hist) >= WINDOW
    THEN LET times == {hist[i].timestamp : i \in 1..Len(hist)}
         IN  IF MaxOf(times) - MinOf(times) < BOT_SPAN THEN "bot" ELSE "human"
    ELSE "human"

\* a classifier for which a span of exactly 2 seconds is still rapid
classify_client_span_inclusive(hist, current_tool) ==
    IF current_tool # <<>> /\ current_tool[1] # "" THEN "scanner"
    ELSE IF Len(hist) >= WINDOW
    THEN LET times == {LastN(hist, WINDOW)[i].timestamp : i \in 1..WINDOW}
         IN  IF MaxOf(times) - MinOf(times) <= BOT_SPAN THEN "bot" ELSE "human"
    ELSE "human"

\* truthiness of an Optional tool label
ToolSet(t) == t # <<>> /\ t[1] # ""

classify_client(hist, current_tool) ==
    IF ToolSet(current_tool) THEN "scanner"
    ELSE IF Len(hist) >= WINDOW
    THEN LET times == {LastN(hist, WINDOW)[i].timestamp : i \in 1..WINDOW}
         IN  IF MaxOf(times) - MinOf(times) < BOT_SPAN THEN "bot" ELSE "human"
    ELSE "human"

---------------------------------------------------------------------------
(* honeypot_core/logger.py *)

\* json.dumps of a str -> str dict, and json.loads of that text
json_dumps(d) == [json |-> {<<k, d[k]>> : k \in DOMAIN d}]
json_loads(t) ==
    [k \in {p[1] : p \in t.json} |-> (CHOOSE p \in t.json : p[1] = k)[2]]

\* the empty dict, and `headers or {}` / `meta or {}` of an Optional dict
EmptyMap == [k \in {} |-> <<>>]
OrEmpty(opt) == IF opt = None \/ DOMAIN opt[1] = {} THEN EmptyMap ELSE opt[1]

\* the dict log_event builds; sid is a ghost: the connection that made the call
Event(ts, service, ip, port, request_type, path, payload, headers, tool, classification, meta, sid) ==
    [timestamp |-> ts, service |-> service, ip |-> ip, port |-> port,
     request_type |-> request_type, path |-> path, payload |-> payload,
     headers |-> headers, tool |-> tool, classification |-> classification,
     meta |-> meta, sid |-> sid]

\* the row INSERT writes: AUTOINCREMENT id, headers and meta as JSON text
Row(ev, id) ==
    [id |-> id, timestamp |-> ev.timestamp, service |-> ev.service, ip |-> ev.ip,
     port |-> ev.port, request_type |-> ev.request_type, path |-> ev.path,
     payload |-> ev.payload, headers |-> json_dumps(ev.headers), tool |-> ev.tool,
     classification |-> ev.classification, meta |-> json_dumps(ev.meta),
     sid |-> ev.sid]

\* the rows a SELECT on the logger's own connection sees
Table == db \o txn

\* log_event raises when SQLite does (execute or commit)
Raises == dbmode # "ok"

\* a logger whose in-memory list is a cache of the 2 most recent events
log_event_recent_cache(ev) ==
    /\ events' = LastN(Append(events, ev), 2)
    /\ IF dbmode = "ok"
       THEN /\ db' = Table \o <<Row(ev, Len(Table) + 1)>>
            /\ txn' = <<>>
       ELSE IF dbmode = "commit_error"
       THEN /\ db' = db
            /\ txn' = Append(txn, Row(ev, Len(Table) + 1))
       ELSE /\ db' = db
            /\ txn' = txn

\* a logger that numbers a row after the committed rows only
log_event_counts_committed(ev) ==
    /\ events' = Append(events, ev)
    /\ IF dbmode = "ok"
       THEN /\ db' = Table \o <<Row(ev, Len(db) + 1)>>
            /\ txn' = <<>>
       ELSE IF dbmode = "commit_error"
       THEN /\ db' = db
            /\ txn' = Append(txn, Row(ev, Len(db) + 1))
       ELSE /\ db' = db
            /\ txn' = txn

\* log_event: append to the list, then INSERT and commit.  "execute_error":
\* cur.execute raises and no row is written.  "commit_error": commit raises
\* (SQLITE_BUSY) and the row stays in the connection's open transaction,
\* which the next successful commit makes durable.
log_event(ev) ==
    /\ events' = Append(events, ev)
    /\ IF dbmode = "ok"
       THEN /\ db' = Table \o <<Row(ev, Len(Table) + 1)>>
            /\ txn' = <<>>
       ELSE IF dbmode = "commit_error"
       THEN /\ db' = db
            /\ txn' = Append(txn, Row(ev, Len(Table) + 1))
       ELSE /\ db' = db
            /\ txn' = txn

\* a reader that hands out the JSON columns as the text that is stored
RowToDictRaw(r) ==
    [id |-> r.id, timestamp |-> r.timestamp, service |-> r.service, ip |-> r.ip,
     port |-> r.port, request_type |-> r.request_type, path |-> r.path,
     payload |-> r.payload, headers |-> r.headers, tool |-> r.tool,
     classification |-> r.classification, meta |-> r.meta, sid |-> r.sid]

\* what query_events makes of a row: the JSON columns parsed
RowToDict(r) ==
    [id |-> r.id, timestamp |-> r.timestamp, service |-> r.service, ip |-> r.ip,
     port |-> r.port, request_type |-> r.request_type, path |-> r.path,
     payload |-> r.payload, headers |-> json_loads(r.headers), tool |-> r.tool,
     classification |-> r.classification, meta |-> json_loads(r.meta), sid |-> r.sid]

\* a reader that sorts by ascending id: the oldest rows come first
query_events_oldest_first(limit) ==
    [i \in 1..(IF limit < 0 THEN Len(Table) ELSE Min2(limit, Len(Table))) |-> RowToDict(Table[i])]

\* query_events: SELECT * FROM events ORDER BY id DESC LIMIT ?
\* (SQLite puts no upper bound on the rows when the LIMIT value is negative)
query_events(limit) ==
    [i \in 1..(IF limit < 0 THEN Len(Table) ELSE Min2(limit, Len(Table))) |->
        RowToDict(Table[Len(Table) - i + 1])]

StoreUnchanged == UNCHANGED <<events, db, txn>>

---------------------------------------------------------------------------
(* The environment: time, the disk, the clients *)

Tick ==
    /\ clock < MaxTime
    /\ clock' = clock + 1
    /\ UNCHANGED <<sup, history, events, db, txn, dbmode, accepted, net, peer, http, ssh, ftp, lock, thr>>

DbFault ==
    /\ \E m \in {"ok", "execute_error", "commit_error"} :
           m # dbmode /\ dbmode' = m
    /\ UNCHANGED <<sup, clock, history, events, db, txn, accepted, net, peer, http, ssh, ftp, lock, thr>>

\* a client that has just connected; log is a ghost: all it has sent, in order
PeerFresh == [state |-> "open", sent |-> 0, log |-> <<>>]

Handler(c) ==
    IF c \in HttpConns THEN http[c] ELSE IF c \in SshConns THEN ssh[c] ELSE ftp[c]

Live(c) == Handler(c).pc \notin {"idle", "closed", "crashed", "cancelled"}

\* the client writes one chunk of bytes to its socket
ClientSend(c, chunks, budget) ==
    /\ Handler(c).pc # "idle"
    /\ peer[c].state = "open"
    /\ peer[c].sent < budget
    /\ \E ch \in chunks :
           /\ net' = [net EXCEPT ![c] = @ \o ch]
           /\ peer' = [peer EXCEPT ![c].sent = @ + 1, ![c].log = @ \o ch]
    /\ UNCHANGED <<sup, clock, history, events, db, txn, dbmode, accepted, http, ssh, ftp, lock, thr>>

\* the client closes its side: the reader sees EOF after the buffered bytes
ClientEof(c) ==
    /\ Live(c)
    /\ peer[c].state = "open"
    /\ peer' = [peer EXCEPT ![c].state = "eof"]
    /\ UNCHANGED <<sup, clock, history, events, db, txn, dbmode, accepted, net, http, ssh, ftp, lock, thr>>

\* a reader that blocks the whole process: no readline returns while another
\* session waits for input that has not arrived
LineReadyBlocking(c) ==
    \A d \in Conns :
        (Handler(d).pc \notin {"idle", "closed", "crashed", "cancelled"})
            => (Contains(net[d], "CRLF") \/ peer[d].state = "eof")

\* StreamReader.readline() can return: a whole line is buffered, or EOF
LineReady(c) == Contains(net[c], "CRLF") \/ peer[c].state = "eof"

\* what readline() returns (b"" at EOF with nothing buffered) ...
ReadLine(c) ==
    LET i == First(net[c], "CRLF")
    IN  IF i > 0 THEN SubSeq(net[c], 1, i) ELSE net[c]

\* ... and what it leaves in the buffer
AfterLine(c) ==
    LET i == First(net[c], "CRLF")
    IN  IF i > 0 THEN SubSeq(net[c], i + 1, Len(net[c])) ELSE <<>>

---------------------------------------------------------------------------
(* honeypot_core/http_honeypot.py *)

HttpIdle ==
    [pc |-> "idle", ip |-> "", method |-> <<>>, path |-> <<>>, headers |-> <<>>,
     length |-> 0, out |-> <<>>, wclosed |-> FALSE]

\* int(content_length): Some(n), or None for ValueError
ParseInt(v) ==
    CASE v = <<"0">> -> Some(0)
      [] v = <<"1">> -> Some(1)
      [] v = <<"2">> -> Some(2)
      [] v = <<"-1">> -> Some(-1)
      [] OTHER -> None

EndsWith(s, tok) == s # <<>> /\ s[Len(s)] = tok

\* the decision table of _generate_response_body; "generic" is one of the four
\* filler pages, drawn at random
generate_response_body(path, detected_tool) ==
    LET lower == Lower(path)
    IN  IF Contains(lower, "wp-login") \/ Contains(lower, "wp-admin") THEN "wordpress_login"
        ELSE IF Contains(lower, "phpmyadmin") THEN "phpmyadmin_login"
        ELSE IF EndsWith(lower, "/.env") THEN "env_file"
        ELSE IF EndsWith(lower, "config.php") \/ EndsWith(lower, "config.inc.php")
        THEN "config_php"
        ELSE IF detected_tool = Some("sqlmap") THEN "sqlmap_decoy"
        ELSE IF detected_tool = Some("nikto") THEN "nikto_decoy"
        ELSE IF detected_tool = Some("nmap") THEN "nmap_decoy"
        ELSE "generic"

\* the server accepts a connection and starts handle_client on it
HttpAccept(c, ips, limit) ==
    /\ sup.listening["http"]
    /\ http[c].pc \in {"idle", "closed", "cancelled"}
    /\ accepted[c] < limit
    /\ \E ip \in ips : http' = [http EXCEPT ![c] = [HttpIdle EXCEPT !.pc = "request_line", !.ip = ip]]
    /\ accepted' = [accepted EXCEPT ![c] = @ + 1]
    /\ net' = [net EXCEPT ![c] = <<>>]
    /\ peer' = [peer EXCEPT ![c] = PeerFresh]
    /\ UNCHANGED <<sup, clock, history, events, db, txn, dbmode, ssh, ftp, lock, thr>>

\* a handler that keeps the connection open for another request after responding
HttpRespondKeepAlive(c, method, path, headers, body, rest) ==
    LET ip == http[c].ip
        detected_tool == detect_tool(headers, body, Some(path), method)
        hist == Append(history[ip], [timestamp |-> clock])
    IN  /\ history' = [history EXCEPT ![ip] = hist]
        /\ log_event(Event(clock, "http", ip, HTTP_PORT, method, Some(path), body,
                           headers, detected_tool,
                           classify_client(hist, detected_tool), <<>>, c))
        /\ http' = [http EXCEPT ![c] =
                       [@ EXCEPT !.pc = "request_line", !.headers = <<>>,
                                 !.out = Append(@, [status |-> "200 OK",
                                                    body |-> "generic",
                                                    connection |-> "keep-alive"])]]
        /\ net' = [net EXCEPT ![c] = rest]
        /\ UNCHANGED <<sup, clock, dbmode, accepted, peer, ssh, ftp, lock, thr>>

\* a handler that classifies the client before it records the request
HttpRespondClassifyFirst(c, method, path, headers, body, rest) ==
    LET ip == http[c].ip
        detected_tool == detect_tool(headers, body, Some(path), method)
        classification == classify_client(history[ip], detected_tool)
        response == [status |-> "200 OK", body |-> generate_response_body(path, detected_tool),
                     connection |-> "close"]
    IN  /\ history' = [history EXCEPT ![ip] = Append(@, [timestamp |-> clock])]
        /\ log_event(Event(clock, "http", ip, HTTP_PORT, method, Some(path), body,
                           headers, detected_tool, classification, <<>>, c))
        /\ http' = [http EXCEPT ![c] =
                       [@ EXCEPT !.pc = "closed", !.method = method, !.path = path,
                                 !.headers = headers, !.wclosed = TRUE,
                                 !.out = IF Raises THEN @ ELSE Append(@, response)]]
        /\ net' = [net EXCEPT ![c] = rest]
        /\ UNCHANGED <<sup, clock, dbmode, accepted, peer, ssh, ftp, lock, thr>>

\* a handler whose history is one list shared by all addresses
HttpRespondSharedHistory(c, method, path, headers, body, rest) ==
    LET ip == http[c].ip
        detected_tool == detect_tool(headers, body, Some(path), method)
        hist == Append(history[ip], [timestamp |-> clock])
        response == [status |-> "200 OK", body |-> generate_response_body(path, detected_tool),
                     connection |-> "close"]
    IN  /\ history' = [a \in IPs |-> hist]
        /\ log_event(Event(clock, "http", ip, HTTP_PORT, method, Some(path), body,
                           headers, detected_tool, classify_client(hist, detected_tool), <<>>, c))
        /\ http' = [http EXCEPT ![c] =
                       [@ EXCEPT !.pc = "closed", !.method = method, !.path = path,
                                 !.headers = headers, !.wclosed = TRUE,
                                 !.out = IF Raises THEN @ ELSE Append(@, response)]]
        /\ net' = [net EXCEPT ![c] = rest]
        /\ UNCHANGED <<sup, clock, dbmode, accepted, peer, ssh, ftp, lock, thr>>

\* handle_client from the return of _read_http_request to its end: fingerprint,
\* history, classification, log_event, _send_response; an exception (log_event's)
\* is swallowed and the connection closed
HttpRespond(c, method, path, headers, body, rest) ==
    LET ip == http[c].ip
        detected_tool == detect_tool(headers, body, Some(path), method)
        ts == clock
        hist == Append(history[ip], [timestamp |-> ts])
        classification == classify_client(hist, detected_tool)
        response_body == generate_response_body(path, detected_tool)
        response == [status |-> "200 OK", body |-> response_body, connection |-> "close"]
    IN  /\ history' = [history EXCEPT ![ip] = hist]
        /\ log_event(Event(clock, "http", ip, HTTP_PORT, method, Some(path), body,
                           headers, detected_tool, classification, <<>>, c))
        /\ http' = [http EXCEPT ![c] =
                       [@ EXCEPT !.pc = "closed", !.method = method, !.path = path,
                                 !.headers = headers, !.wclosed = TRUE,
                                 !.out = IF Raises THEN @ ELSE Append(@, response)]]
        /\ net' = [net EXCEPT ![c] = rest]
        /\ UNCHANGED <<sup, clock, dbmode, accepted, peer, ssh, ftp, lock, thr>>

\* an abort that has already recorded the client in the history
HttpAbortAfterHistory(c, rest) ==
    /\ http' = [http EXCEPT ![c] = [@ EXCEPT !.pc = "closed", !.wclosed = TRUE]]
    /\ history' = [history EXCEPT ![http[c].ip] = Append(@, [timestamp |-> clock])]
    /\ net' = [net EXCEPT ![c] = rest]
    /\ UNCHANGED <<sup, clock, events, db, txn, dbmode, accepted, peer, ssh, ftp, lock, thr>>

\* _read_http_request returned None: close without a word
HttpAbort(c, rest) ==
    /\ http' = [http EXCEPT ![c] = [@ EXCEPT !.pc = "closed", !.wclosed = TRUE]]
    /\ net' = [net EXCEPT ![c] = rest]
    /\ UNCHANGED <<sup, clock, history, events, db, txn, dbmode, accepted, peer, ssh, ftp, lock, thr>>

\* a header loop end that gives the request up when its Content-Length is unusable
HttpHeadersDoneStrict(c, headers, rest) ==
    LET content_length == IF CL_KEY \in DOMAIN headers THEN headers[CL_KEY] ELSE <<>>
        length == ParseInt(content_length)
    IN  IF content_length # <<>> /\ length # None /\ length[1] >= 0
        THEN /\ http' = [http EXCEPT ![c] =
                            [@ EXCEPT !.pc = "body", !.headers = headers, !.length = length[1]]]
             /\ net' = [net EXCEPT ![c] = rest]
             /\ UNCHANGED <<sup, clock, history, events, db, txn, dbmode, accepted, peer, ssh, ftp, lock, thr>>
        ELSE IF content_length # <<>>
        THEN HttpAbort(c, rest)
        ELSE HttpRespond(c, http[c].method, http[c].path, headers, None, rest)

\* the end of the header loop: the Content-Length lookup
HttpHeadersDone(c, headers, rest) ==
    LET content_length == IF CL_KEY \in DOMAIN headers THEN headers[CL_KEY] ELSE <<>>
        length == ParseInt(content_length)
    IN  IF content_length # <<>> /\ length # None /\ length[1] >= 0
        THEN \* await reader.readexactly(length)
             /\ http' = [http EXCEPT ![c] =
                            [@ EXCEPT !.pc = "body", !.headers = headers, !.length = length[1]]]
             /\ net' = [net EXCEPT ![c] = rest]
             /\ UNCHANGED <<sup, clock, history, events, db, txn, dbmode, accepted, peer, ssh, ftp, lock, thr>>
        ELSE \* no Content-Length, int() or readexactly(negative) raised: body = None
             HttpRespond(c, http[c].method, http[c].path, headers, None, rest)

\* readline() of the request line returns
HttpReadRequestLine(c) ==
    /\ http[c].pc = "request_line"
    /\ LineReady(c)
    /\ LET line == ReadLine(c)
           parts == Split(Strip(line, WS))
       IN  IF line = <<>> \/ DecodeFails(line) \/ Len(parts) < 2
           THEN HttpAbort(c, AfterLine(c))
           ELSE /\ http' = [http EXCEPT ![c] =
                               [@ EXCEPT !.pc = "headers", !.method = parts[1], !.path = parts[2]]]
                /\ net' = [net EXCEPT ![c] = AfterLine(c)]
                /\ UNCHANGED <<sup, clock, history, events, db, txn, dbmode, accepted, peer, ssh, ftp, lock, thr>>

\* readline() of a header line returns
HttpReadHeader(c) ==
    /\ http[c].pc = "headers"
    /\ LineReady(c)
    /\ LET header_line == ReadLine(c)
           header_str == Strip(DecodeReplace(header_line), WS)
           kv == Split1(header_str, ":")
           key == Strip(kv[1], WS)
           headers == http[c].headers
       IN  IF header_line = <<>> \/ header_str = <<>>
           THEN HttpHeadersDone(c, headers, AfterLine(c))
           ELSE /\ http' = [http EXCEPT ![c].headers =
                               IF Contains(header_str, ":")
                               THEN [k \in DOMAIN headers \cup {key} |->
                                        IF k = key THEN Strip(kv[2], WS) ELSE headers[k]]
                               ELSE headers]
                /\ net' = [net EXCEPT ![c] = AfterLine(c)]
                /\ UNCHANGED <<sup, clock, history, events, db, txn, dbmode, accepted, peer, ssh, ftp, lock, thr>>

\* readexactly(length) returns the bytes, or raises IncompleteReadError at EOF
HttpReadBody(c) ==
    /\ http[c].pc = "body"
    /\ LET n == http[c].length
       IN  /\ Len(net[c]) >= n \/ peer[c].state = "eof"
           /\ IF Len(net[c]) >= n
              THEN HttpRespond(c, http[c].method, http[c].path, http[c].headers,
                               Some(DecodeReplace(SubSeq(net[c], 1, n))),
                               SubSeq(net[c], n + 1, Len(net[c])))
              ELSE HttpRespond(c, http[c].method, http[c].path, http[c].headers, None, <<>>)

---------------------------------------------------------------------------
(* honeypot_core/ssh_honeypot.py *)

SshIdle ==
    [pc |-> "idle", ip |-> "", attempts |-> 0, username |-> <<>>, out |-> <<>>,
     wclosed |-> FALSE]

\* one writer.write(); arg is the text interpolated into the message
Msg(text, arg) == [msg |-> text, arg |-> arg]

SSH_BANNER == Msg("SSH-2.0-OpenSSH_7.4p1 Debian-10+deb9u6", <<>>)
SSH_LOGIN_AS == Msg("login as: ", <<>>)
SSH_RETRY == Msg("Permission denied, please try again.", <<>>)
SSH_FINAL == Msg("Permission denied (publickey,password).", <<>>)
SshPasswordPrompt(username) == Msg("@server's password: ", username)

\* _read_line: None at EOF, else the line without its line ending
read_line(line) ==
    IF line = <<>> THEN None ELSE Some(DecodeReplace(Strip(line, LINE_END)))

\* the server accepts a connection; handle_client sends the banner, enters the
\* loop and prompts for the username
SshAccept(c, ips, limit) ==
    /\ sup.listening["ssh"]
    /\ ssh[c].pc \in {"idle", "closed", "crashed", "cancelled"}
    /\ accepted[c] < limit
    /\ \E ip \in ips :
           ssh' = [ssh EXCEPT ![c] =
                      [SshIdle EXCEPT !.pc = "read_user", !.ip = ip,
                                      !.out = <<SSH_BANNER, SSH_LOGIN_AS>>]]
    /\ accepted' = [accepted EXCEPT ![c] = @ + 1]
    /\ net' = [net EXCEPT ![c] = <<>>]
    /\ peer' = [peer EXCEPT ![c] = PeerFresh]
    /\ UNCHANGED <<sup, clock, history, events, db, txn, dbmode, http, ftp, lock, thr>>

\* the username read returns
SshReadUser(c) ==
    /\ ssh[c].pc = "read_user"
    /\ LineReady(c)
    /\ LET username == read_line(ReadLine(c))
       IN  ssh' = [ssh EXCEPT ![c] =
                      IF username = None
                      THEN [@ EXCEPT !.pc = "closed", !.wclosed = TRUE]
                      ELSE [@ EXCEPT !.pc = "read_pass", !.username = username[1],
                                     !.out = Append(@, SshPasswordPrompt(username[1]))]]
    /\ net' = [net EXCEPT ![c] = AfterLine(c)]
    /\ UNCHANGED <<sup, clock, history, events, db, txn, dbmode, accepted, peer, http, ftp, lock, thr>>

\* a round that asks the Classification Engine, on the HTTP history of the address
SshAttemptByEngine(c, password) ==
    LET attempts == ssh[c].attempts + 1
        username == ssh[c].username
        tool == detect_tool(<<>>, None, None, <<"SSH">>)
    IN  /\ log_event(Event(clock, "ssh", ssh[c].ip, SSH_PORT, <<"LOGIN">>,
                           Some(username), Some(password),
                           [k \in {<<"banner">>} |-> <<"OpenSSH_7.4p1">>],
                           tool, classify_client(history[ssh[c].ip], tool), <<>>, c))
        /\ ssh' = [ssh EXCEPT ![c] =
                      IF Raises
                      THEN [@ EXCEPT !.pc = "crashed", !.attempts = attempts]
                      ELSE IF attempts >= MAX_ATTEMPTS
                      THEN [@ EXCEPT !.pc = "closed", !.attempts = attempts,
                                     !.out = Append(@, SSH_FINAL), !.wclosed = TRUE]
                      ELSE [@ EXCEPT !.pc = "read_user", !.attempts = attempts,
                                     !.out = @ \o <<SSH_RETRY, SSH_LOGIN_AS>>]]

\* the rest of a round after the password: count, log, reject
SshAttempt(c, password) ==
    LET attempts == ssh[c].attempts + 1
        username == ssh[c].username
    IN  /\ log_event(Event(clock, "ssh", ssh[c].ip, SSH_PORT, <<"LOGIN">>,
                           Some(username), Some(password),
                           [k \in {<<"banner">>} |-> <<"OpenSSH_7.4p1">>],
                           detect_tool(<<>>, None, None, <<"SSH">>),
                           IF attempts > 1 THEN "bot" ELSE "unknown", <<>>, c))
        /\ ssh' = [ssh EXCEPT ![c] =
                      IF Raises
                      THEN [@ EXCEPT !.pc = "crashed", !.attempts = attempts]
                      ELSE IF attempts >= MAX_ATTEMPTS
                      THEN [@ EXCEPT !.pc = "closed", !.attempts = attempts,
                                     !.out = Append(@, SSH_FINAL), !.wclosed = TRUE]
                      ELSE [@ EXCEPT !.pc = "read_user", !.attempts = attempts,
                                     !.out = @ \o <<SSH_RETRY, SSH_LOGIN_AS>>]]

\* a password read that takes EOF for an empty password and logs the round
SshReadPassLogsEof(c) ==
    /\ ssh[c].pc = "read_pass"
    /\ LineReady(c)
    /\ LET password == read_line(ReadLine(c))
       IN  SshAttempt(c, IF password = None THEN <<>> ELSE password[1])
    /\ net' = [net EXCEPT ![c] = AfterLine(c)]
    /\ UNCHANGED <<sup, clock, history, dbmode, accepted, peer, http, ftp, lock, thr>>

\* the password read returns
SshReadPass(c) ==
    /\ ssh[c].pc = "read_pass"
    /\ LineReady(c)
    /\ LET password == read_line(ReadLine(c))
       IN  IF password = None
           THEN /\ ssh' = [ssh EXCEPT ![c] = [@ EXCEPT !.pc = "closed", !.wclosed = TRUE]]
                /\ StoreUnchanged
           ELSE SshAttempt(c, password[1])
    /\ net' = [net EXCEPT ![c] = AfterLine(c)]
    /\ UNCHANGED <<sup, clock, history, dbmode, accepted, peer, http, ftp, lock, thr>>

---------------------------------------------------------------------------
(* honeypot_core/ftp_honeypot.py *)

FtpIdle == [pc |-> "idle", ip |-> "", username |-> None, out |-> <<>>, wclosed |-> FALSE]

FTP_GREETING == Msg("220 (vsFTPd 3.0.3)", <<>>)
FTP_331 == Msg("331 Please specify the password.", <<>>)
FTP_530 == Msg("530 Login incorrect.", <<>>)
FTP_257 == Msg("257 \"/\" is the current directory", <<>>)
FTP_150 == Msg("150 Here comes the directory listing.", <<>>)
FTP_LISTING == Msg("-rw-r--r-- README.txt / drwxr-xr-x data", <<>>)
FTP_226 == Msg("226 Directory send OK.", <<>>)
FTP_221 == Msg("221 Goodbye.", <<>>)
FTP_502 == Msg("502 Command not implemented.", <<>>)

\* the if/elif chain: what the handler writes for a command
FtpReply(cmd) ==
    IF cmd = <<"USER">> THEN <<FTP_331>>
    ELSE IF cmd = <<"PASS">> THEN <<FTP_530>>
    ELSE IF cmd = <<"PWD">> THEN <<FTP_257>>
    ELSE IF cmd = <<"LIST">> THEN <<FTP_150, FTP_LISTING, FTP_226>>
    ELSE IF cmd = <<"QUIT">> THEN <<FTP_221>>
    ELSE <<FTP_502>>

\* the server accepts a connection; handle_client sends the greeting
FtpAccept(c, ips, limit) ==
    /\ sup.listening["ftp"]
    /\ ftp[c].pc \in {"idle", "closed", "crashed", "cancelled"}
    /\ accepted[c] < limit
    /\ \E ip \in ips :
           ftp' = [ftp EXCEPT ![c] =
                      [FtpIdle EXCEPT !.pc = "read", !.ip = ip, !.out = <<FTP_GREETING>>]]
    /\ accepted' = [accepted EXCEPT ![c] = @ + 1]
    /\ net' = [net EXCEPT ![c] = <<>>]
    /\ peer' = [peer EXCEPT ![c] = PeerFresh]
    /\ UNCHANGED <<sup, clock, history, events, db, txn, dbmode, http, ssh, lock, thr>>

\* a handler that logs only the commands it implements
FtpCommandKnownOnly(c, line) ==
    LET parts == Split1(line, "SP")
        cmd == Upper(parts[1])
        arg == IF Len(parts) > 1 THEN parts[2] ELSE <<>>
        known == cmd \in {<<"USER">>, <<"PASS">>, <<"PWD">>, <<"LIST">>, <<"QUIT">>}
    IN  /\ IF known
           THEN log_event(Event(clock, "ftp", ftp[c].ip, FTP_PORT, cmd, Some(arg), None,
                                <<>>, None,
                                IF cmd \in {<<"USER">>, <<"PASS">>, <<"LIST">>}
                                THEN "bot" ELSE "unknown", <<>>, c))
           ELSE StoreUnchanged
        /\ ftp' = [ftp EXCEPT ![c] =
                      IF known /\ Raises
                      THEN [@ EXCEPT !.pc = "crashed"]
                      ELSE [@ EXCEPT !.pc = IF cmd = <<"QUIT">> THEN "closed" ELSE "read",
                                     !.wclosed = (cmd = <<"QUIT">>),
                                     !.out = @ \o FtpReply(cmd)]]

\* a handler that answers the command first and logs it afterwards
FtpCommandReplyFirst(c, line) ==
    LET parts == Split1(line, "SP")
        cmd == Upper(parts[1])
        arg == IF Len(parts) > 1 THEN parts[2] ELSE <<>>
    IN  /\ log_event(Event(clock, "ftp", ftp[c].ip, FTP_PORT, cmd, Some(arg), None,
                           <<>>, detect_tool(<<>>, None, None, cmd),
                           IF cmd \in {<<"USER">>, <<"PASS">>, <<"LIST">>}
                           THEN "bot" ELSE "unknown", <<>>, c))
        /\ ftp' = [ftp EXCEPT ![c] =
                      IF Raises
                      THEN [@ EXCEPT !.pc = "crashed", !.out = @ \o FtpReply(cmd)]
                      ELSE [@ EXCEPT !.pc = IF cmd = <<"QUIT">> THEN "closed" ELSE "read",
                                     !.wclosed = (cmd = <<"QUIT">>),
                                     !.username = IF cmd = <<"USER">> THEN Some(arg) ELSE @,
                                     !.out = @ \o FtpReply(cmd)]]

\* a handler that hands the verb's argument to the fingerprinter as payload and path
FtpCommandFingerprintsArg(c, line) ==
    LET parts == Split1(line, "SP")
        cmd == Upper(parts[1])
        arg == IF Len(parts) > 1 THEN parts[2] ELSE <<>>
    IN  /\ log_event(Event(clock, "ftp", ftp[c].ip, FTP_PORT, cmd, Some(arg), None,
                           <<>>, detect_tool(<<>>, Some(arg), Some(arg), cmd),
                           IF cmd \in {<<"USER">>, <<"PASS">>, <<"LIST">>}
                           THEN "bot" ELSE "unknown", <<>>, c))
        /\ ftp' = [ftp EXCEPT ![c] =
                      IF Raises
                      THEN [@ EXCEPT !.pc = "crashed"]
                      ELSE [@ EXCEPT !.pc = IF cmd = <<"QUIT">> THEN "closed" ELSE "read",
                                     !.wclosed = (cmd = <<"QUIT">>),
                                     !.username = IF cmd = <<"USER">> THEN Some(arg) ELSE @,
                                     !.out = @ \o FtpReply(cmd)]]

\* one non-empty line: log the command, then answer it
FtpCommand(c, line) ==
    LET parts == Split1(line, "SP")
        cmd == Upper(parts[1])
        arg == IF Len(parts) > 1 THEN parts[2] ELSE <<>>
    IN  /\ log_event(Event(clock, "ftp", ftp[c].ip, FTP_PORT, cmd, Some(arg), None,
                           <<>>, detect_tool(<<>>, None, None, cmd),
                           IF cmd \in {<<"USER">>, <<"PASS">>, <<"LIST">>}
                           THEN "bot" ELSE "unknown", <<>>, c))
        /\ ftp' = [ftp EXCEPT ![c] =
                      IF Raises
                      THEN [@ EXCEPT !.pc = "crashed"]
                      ELSE [@ EXCEPT !.pc = IF cmd = <<"QUIT">> THEN "closed" ELSE "read",
                                     !.wclosed = (cmd = <<"QUIT">>),
                                     !.username = IF cmd = <<"USER">> THEN Some(arg) ELSE @,
                                     !.out = @ \o FtpReply(cmd)]]

\* readline() in the command loop returns
FtpReadLine(c) ==
    /\ ftp[c].pc = "read"
    /\ LineReady(c)
    /\ LET line_bytes == ReadLine(c)
           line == Strip(DecodeReplace(line_bytes), WS)
       IN  IF line_bytes = <<>>
           THEN /\ ftp' = [ftp EXCEPT ![c] = [@ EXCEPT !.pc = "closed", !.wclosed = TRUE]]
                /\ StoreUnchanged
           ELSE IF line = <<>>
           THEN UNCHANGED <<ftp, events, db, txn>>
           ELSE FtpCommand(c, line)
    /\ net' = [net EXCEPT ![c] = AfterLine(c)]
    /\ UNCHANGED <<sup, clock, history, dbmode, accepted, peer, http, ssh, lock, thr>>

---------------------------------------------------------------------------
(* honeypot_core/manager.py and cancellation *)

\* the handlers after task.cancel(): CancelledError is raised at the await a
\* handler is suspended in; it is not an Exception, so no handler catches it
\* and none closes its writer
Cancelled(h, cs) == [c \in DOMAIN h |-> IF c \in cs THEN [h[c] EXCEPT !.pc = "cancelled"] ELSE h[c]]

\* the task of one listener's start() is cancelled: `async with server` closes
\* the listening socket; the sessions it accepted run on
CancelListener(p) ==
    /\ sup.listening[p]
    /\ sup' = [sup EXCEPT !.listening[p] = FALSE]
    /\ UNCHANGED <<clock, history, events, db, txn, dbmode, accepted, net, peer, http, ssh, ftp, lock, thr>>

\* the task of one session is cancelled
CancelSession(c) ==
    /\ Live(c)
    /\ http' = Cancelled(http, {c} \cap HttpConns)
    /\ ssh' = Cancelled(ssh, {c} \cap SshConns)
    /\ ftp' = Cancelled(ftp, {c} \cap FtpConns)
    /\ UNCHANGED <<sup, clock, history, events, db, txn, dbmode, accepted, net, peer, lock, thr>>

\* an interrupt that stops the listeners and lets the sessions in flight finish
InterruptGraceful ==
    /\ ~sup.interrupted
    /\ sup' = [listening |-> [p \in Services |-> FALSE], interrupted |-> TRUE]
    /\ UNCHANGED <<clock, history, events, db, txn, dbmode, accepted, net, peer, http, ssh, ftp, lock, thr>>

\* Ctrl+C in run_all: asyncio.run cancels the gather of the three start()
\* tasks and every remaining task, the sessions included, then closes the loop
Interrupt ==
    /\ ~sup.interrupted
    /\ sup' = [listening |-> [p \in Services |-> FALSE], interrupted |-> TRUE]
    /\ http' = Cancelled(http, {c \in HttpConns : Live(c)})
    /\ ssh' = Cancelled(ssh, {c \in SshConns : Live(c)})
    /\ ftp' = Cancelled(ftp, {c \in FtpConns : Live(c)})
    /\ UNCHANGED <<clock, history, events, db, txn, dbmode, accepted, net, peer, lock, thr>>

---------------------------------------------------------------------------
(* Threads that share one EventLogger and call log_event directly.  A thread
   can be preempted between any two statements of the call. *)

Threads == {"t1", "t2", "t3"}

\* calls: log_event calls begun; ev: the dict of the call under way;
\* lost is a ghost: the calls whose INSERT raised
ThrIdle == [pc |-> "idle", calls |-> 0, ev |-> None, lost |-> {}]

\* how many calls a thread makes: t1 several, the others one each
ThreadBudget(t) == IF t = "t1" THEN MaxThreadCalls ELSE 1

Thr(t, pc) == [thr EXCEPT ![t].pc = pc]
ThrEnd(t, lost) == [thr EXCEPT ![t].pc = "idle", ![t].ev = None, ![t].lost = lost]

\* event = {"timestamp": datetime.utcnow().isoformat(), ...}: before the lock
ThreadBuild(t) ==
    /\ thr[t].pc = "idle"
    /\ thr[t].calls < ThreadBudget(t)
    /\ thr' = [thr EXCEPT ![t].pc = "built", ![t].calls = @ + 1,
                          ![t].ev = Some(Event(clock, "http", "10.0.0.1", HTTP_PORT, <<"GET">>,
                                               Some(<<"/", ToString(thr[t].calls + 1)>>), None,
                                               EmptyMap, None, "human", EmptyMap, t))]
    /\ UNCHANGED <<sup, clock, history, events, db, txn, dbmode, accepted, net, peer, http, ssh, ftp, lock>>

\* a logger without the lock: every caller walks straight in
ThreadAcquireNoLock(t) ==
    /\ thr[t].pc = "built"
    /\ lock' = Some(t)
    /\ thr' = Thr(t, "locked")
    /\ UNCHANGED <<sup, clock, history, events, db, txn, dbmode, accepted, net, peer, http, ssh, ftp>>

\* with self._lock: blocks while another thread holds the lock
ThreadAcquire(t) ==
    /\ thr[t].pc = "built"
    /\ lock = None
    /\ lock' = Some(t)
    /\ thr' = Thr(t, "locked")
    /\ UNCHANGED <<sup, clock, history, events, db, txn, dbmode, accepted, net, peer, http, ssh, ftp>>

\* self.events.append(event)
ThreadAppend(t) ==
    /\ thr[t].pc = "locked"
    /\ events' = Append(events, thr[t].ev[1])
    /\ thr' = Thr(t, "appended")
    /\ UNCHANGED <<sup, clock, history, db, txn, dbmode, accepted, net, peer, http, ssh, ftp, lock>>

\* cur.execute(INSERT ...); when it raises, the with block releases the lock
ThreadExecute(t) ==
    /\ thr[t].pc = "appended"
    /\ IF dbmode = "execute_error"
       THEN /\ thr' = ThrEnd(t, thr[t].lost \cup {thr[t].calls})
            /\ lock' = None
            /\ txn' = txn
       ELSE /\ txn' = Append(txn, Row(thr[t].ev[1], Len(Table) + 1))
            /\ thr' = Thr(t, "inserted")
            /\ lock' = lock
    /\ UNCHANGED <<sup, clock, history, events, db, dbmode, accepted, net, peer, http, ssh, ftp>>

\* self._conn.commit(), then the with block releases the lock; when commit
\* raises, the row stays in the connection's open transaction
ThreadCommit(t) ==
    /\ thr[t].pc = "inserted"
    /\ IF dbmode = "commit_error"
       THEN UNCHANGED <<db, txn>>
       ELSE db' = Table /\ txn' = <<>>
    /\ thr' = ThrEnd(t, thr[t].lost)
    /\ lock' = None
    /\ UNCHANGED <<sup, clock, history, events, dbmode, accepted, net, peer, http, ssh, ftp>>

---------------------------------------------------------------------------
(* Specifications *)

Init ==
    /\ sup = [listening |-> [p \in Services |-> TRUE], interrupted |-> FALSE]
    /\ clock = 0
    /\ history = [ip \in IPs |-> <<>>]
    /\ events = <<>>
    /\ db = <<>>
    /\ txn = <<>>
    /\ dbmode = "ok"
    /\ accepted = [c \in Conns |-> 0]
    /\ net = [c \in Conns |-> <<>>]
    /\ peer = [c \in Conns |-> PeerFresh]
    /\ http = [c \in HttpConns |-> HttpIdle]
    /\ ssh = [c \in SshConns |-> SshIdle]
    /\ ftp = [c \in FtpConns |-> FtpIdle]
    /\ lock = None
    /\ thr = [t \in Threads |-> ThrIdle]

\* what an HTTP client may write in one go
HttpChunks ==
    { <<"GET", "SP", "/", "WP-LOGIN", ".php", "SP", "HTTP/1.1", "CRLF">>,
      <<"GET", "CRLF">>,
      <<"BAD", "SP", "/", "CRLF">>,
      <<"CRLF">>,
      <<"Content-Length", ":", "SP", "1", "CRLF", "CRLF", "b">>,
      <<"Content-Length", ":", "SP", "2", "CRLF", "CRLF", "b">>,
      <<"Content-Length", ":", "SP", "x", "CRLF", "CRLF">> }

\* a whole request without headers, and one announcing a scanner
HttpPlain == <<"GET", "SP", "/", "CRLF", "CRLF">>
HttpSqlmap == <<"GET", "SP", "/", "CRLF", "User-Agent", ":", "SP", "SQLMAP", "CRLF", "CRLF">>

\* the HTTP listener with two clients, one sending anything and one up to two
\* plain requests on its connection, and a disk that may fail
NextHTTP ==
    \/ DbFault
    \/ ClientSend("h1", HttpChunks, MaxHttpSend)
    \/ ClientSend("h2", {HttpPlain}, 2)
    \/ \E c \in HttpConns :
          \/ HttpAccept(c, {"10.0.0.1"}, 1)
          \/ ClientEof(c)
          \/ HttpReadRequestLine(c)
          \/ HttpReadHeader(c)
          \/ HttpReadBody(c)

SpecHTTP == Init /\ [][NextHTTP]_vars

\* what an SSH client may write in one go: both lines of a round, or one line
SshChunks ==
    { <<"root", "CRLF", "toor", "SP", "CRLF">>,
      <<"sqlmap", "CRLF">> }

\* the SSH listener with two clients and a disk that may fail
NextSSH ==
    \/ DbFault
    \/ ClientSend("s1", SshChunks, MaxSshSend)
    \/ ClientSend("s2", {<<"admin", "CRLF", "CRLF">>}, 1)
    \/ \E c \in SshConns :
          \/ SshAccept(c, {"10.0.0.1"}, 1)
          \/ ClientEof(c)
          \/ SshReadUser(c)
          \/ SshReadPass(c)

SpecSSH == Init /\ [][NextSSH]_vars

\* what an FTP client may write in one go
FtpChunks ==
    { <<"user", "SP", "a", "CRLF">>,
      <<"PASS", "SP", "b", "CRLF">>,
      <<"SP", "CRLF", "pwd", "CRLF", "NOOP", "SP", "sqlmap", "CRLF", "LIST", "CRLF">>,
      <<"Quit", "CRLF">> }

\* the FTP listener with two clients and a disk that may fail
NextFTP ==
    \/ DbFault
    \/ ClientSend("f1", FtpChunks, MaxFtpSend)
    \/ ClientSend("f2", {<<"PASS", "SP", "b", "CRLF">>}, 1)
    \/ \E c \in FtpConns :
          \/ FtpAccept(c, {"10.0.0.1"}, 1)
          \/ FtpReadLine(c)
    \/ ClientEof("f1")

SpecFTP == Init /\ [][NextFTP]_vars

\* the HTTP listener serving one well-formed request after another from one
\* address while time passes; the disk works
NextRate ==
    \/ Tick
    \/ HttpAccept("h1", {"10.0.0.1"}, MaxRateConn)
    \/ ClientSend("h1", {HttpPlain, HttpSqlmap}, 1)
    \/ HttpReadRequestLine("h1")
    \/ HttpReadHeader("h1")

SpecRate == Init /\ [][NextRate]_vars

\* the supervisor's deployment: the three listeners on one shared EventLogger,
\* one client each, and a disk that may fail
NextAll ==
    \/ DbFault
    \/ ClientSend("h1", {HttpPlain}, 1)
    \/ ClientSend("s1", {<<"root", "CRLF", "toor", "SP", "CRLF">>}, 2)
    \/ ClientSend("f1", {<<"PASS", "SP", "b", "CRLF">>, <<"Quit", "CRLF">>}, 2)
    \/ HttpAccept("h1", {"10.0.0.1"}, 1)
    \/ HttpReadRequestLine("h1")
    \/ HttpReadHeader("h1")
    \/ SshAccept("s1", {"10.0.0.1"}, 1)
    \/ SshReadUser("s1")
    \/ SshReadPass("s1")
    \/ FtpAccept("f1", {"10.0.0.2"}, 1)
    \/ FtpReadLine("f1")
    \/ \E c \in {"h1", "s1", "f1"} : ClientEof(c)

SpecAll == Init /\ [][NextAll]_vars

\* a caller of the logger's API: log_event with or without payload, headers, meta
LogCall ==
    /\ Len(events) < MaxStoreCalls
    /\ \E payload \in {None, Some(<<"b">>)},
          headers \in {None, Some([k \in {<<"Host">>} |-> <<"example">>])},
          meta \in {None, Some([k \in {<<"note">>} |-> <<"x">>])} :
           log_event(Event(clock, "http", "10.0.0.1", HTTP_PORT, <<"GET">>, None, payload,
                           OrEmpty(headers), None, "human", OrEmpty(meta), "api"))
    /\ UNCHANGED <<sup, clock, history, dbmode, accepted, net, peer, http, ssh, ftp, lock, thr>>

\* the logger alone, called directly, on a disk that may fail
NextStore ==
    \/ DbFault
    \/ LogCall

SpecStore == Init /\ [][NextStore]_vars

\* two HTTP sessions at a time from one address, one request per connection,
\* connection after connection while time passes; the disk works
NextConc ==
    \/ Tick
    \/ HttpAccept("h1", {"10.0.0.1"}, MaxConcConn)
    \/ HttpAccept("h2", {"10.0.0.1"}, 2)
    \/ ClientSend("h1", {HttpPlain, <<"GET", "CRLF">>}, 1)
    \/ ClientSend("h2", {HttpPlain}, 1)
    \/ \E c \in HttpConns :
          \/ HttpReadRequestLine(c)
          \/ HttpReadHeader(c)

SpecConc == Init /\ [][NextConc]_vars

\* request lines, User-Agent headers and request ends a scanner may send
DetectChunks ==
    { <<"GET", "SP", "/", "CRLF">>,
      <<"GET", "SP", "/", "WP-LOGIN", ".php", "CRLF">>,
      <<"User-Agent", ":", "SP", "Nmap", "SP", "Nikto", "CRLF">>,
      <<"User-Agent", ":", "SP", "curl", "CRLF">>,
      <<"User-Agent", ":", "CRLF">>,
      <<"user-agent", ":", "SP", "SQLMAP", "CRLF">>,
      <<"CRLF">>,
      <<"Content-Length", ":", "SP", "1", "CRLF", "CRLF", "nmap">>,
      <<"Content-Length", ":", "SP", "1", "CRLF", "CRLF", "SELECT">> }

\* the HTTP listener fingerprinting the request of one client; the disk works
NextDetect ==
    \/ HttpAccept("h1", {"10.0.0.1"}, 1)
    \/ ClientSend("h1", DetectChunks, MaxDetectSend)
    \/ ClientEof("h1")
    \/ HttpReadRequestLine("h1")
    \/ HttpReadHeader("h1")
    \/ HttpReadBody("h1")

SpecDetect == Init /\ [][NextDetect]_vars

\* the deployment under an operator: listeners and sessions may be cancelled,
\* the whole service interrupted, and the disk may fail
NextStop ==
    \/ DbFault
    \/ Interrupt
    \/ \E p \in Services : CancelListener(p)
    \/ \E c \in {"h1", "s1", "f1"} : CancelSession(c)
    \/ ClientSend("h1", {HttpPlain}, 1)
    \/ ClientSend("s1", {<<"root", "CRLF", "toor", "SP", "CRLF">>}, 1)
    \/ ClientSend("f1", {<<"PASS", "SP", "b", "CRLF">>}, 1)
    \/ HttpAccept("h1", {"10.0.0.1"}, 1)
    \/ HttpReadRequestLine("h1")
    \/ HttpReadHeader("h1")
    \/ SshAccept("s1", {"10.0.0.1"}, 1)
    \/ SshReadUser("s1")
    \/ SshReadPass("s1")
    \/ FtpAccept("f1", {"10.0.0.2"}, 1)
    \/ FtpReadLine("f1")

SpecStop == Init /\ [][NextStop]_vars

\* request lines, Content-Length headers and bodies a client may send
BodyChunks ==
    { <<"POST", "SP", "/", "CRLF">>,
      <<"POST", "CRLF">>,
      <<"Content-Length", ":", "SP", "x", "CRLF", "CRLF">>,
      <<"Content-Length", ":", "SP", "-1", "CRLF", "CRLF", "b">>,
      <<"Content-Length", ":", "SP", "2", "CRLF", "CRLF", "b">>,
      <<"Content-Length", ":", "SP", "1", "CRLF", "CRLF", "b">>,
      <<"CRLF">> }

\* the HTTP listener reading the requests of two clients in turn, bodies
\* included, on a disk that may fail
NextBody ==
    \/ DbFault
    \/ HttpAccept("h1", {"10.0.0.1"}, 2)
    \/ ClientSend("h1", BodyChunks, MaxBodySend)
    \/ ClientEof("h1")
    \/ HttpReadRequestLine("h1")
    \/ HttpReadHeader("h1")
    \/ HttpReadBody("h1")

SpecBody == Init /\ [][NextBody]_vars

\* pairs of command lines an FTP client may send
LocalFtpChunks ==
    { <<"user", "SP", "a", "CRLF", "NOOP", "SP", "sqlmap", "CRLF">>,
      <<"pwd", "CRLF", "LIST", "CRLF">> }

\* one address that sends the HTTP listener a rapid series of requests, logs
\* in over SSH up to three times and talks to the FTP listener; the disk works
NextLocal ==
    \/ HttpAccept("h1", {"10.0.0.1"}, WINDOW)
    \/ ClientSend("h1", {HttpPlain}, 1)
    \/ HttpReadRequestLine("h1")
    \/ HttpReadHeader("h1")
    \/ SshAccept("s1", {"10.0.0.1"}, 1)
    \/ ClientSend("s1", {<<"root", "CRLF", "toor", "CRLF">>}, MAX_ATTEMPTS)
    \/ SshReadUser("s1")
    \/ SshReadPass("s1")
    \/ FtpAccept("f1", {"10.0.0.1"}, 1)
    \/ ClientSend("f1", LocalFtpChunks, 1)
    \/ FtpReadLine("f1")

SpecLocal == Init /\ [][NextLocal]_vars

\* the clients that stall in the middle of their session, one per protocol,
\* and the clients that send their whole session
Stallers == {"h1", "s1", "f1"}
Cooperative == {"h2", "s2", "f2"}

\* the readline that the handler of c is suspended in can return
Ready(c) == Live(c) /\ Handler(c).pc # "body" /\ LineReady(c)

\* on each listener one client that sends the first line of its session and
\* then nothing, neither bytes nor EOF, and one client that sends a whole
\* session: a request, three login rounds, PASS and QUIT; the disk works
NextStall ==
    \/ ClientSend("h1", {<<"GET", "SP", "/", "CRLF">>}, 1)
    \/ ClientSend("s1", {<<"root", "CRLF">>}, 1)
    \/ ClientSend("f1", {<<"user", "SP", "a", "CRLF">>}, 1)
    \/ ClientSend("h2", {HttpPlain}, 1)
    \/ ClientSend("s2", {<<"root", "CRLF", "toor", "CRLF">>}, MAX_ATTEMPTS)
    \/ ClientSend("f2", {<<"PASS", "SP", "b", "CRLF", "Quit", "CRLF">>}, 1)
    \/ \E c \in HttpConns :
          \/ HttpAccept(c, {"10.0.0.1"}, 1)
          \/ HttpReadRequestLine(c)
          \/ HttpReadHeader(c)
    \/ \E c \in SshConns :
          \/ SshAccept(c, {"10.0.0.1"}, 1)
          \/ SshReadUser(c)
          \/ SshReadPass(c)
    \/ \E c \in FtpConns :
          \/ FtpAccept(c, {"10.0.0.1"}, 1)
          \/ FtpReadLine(c)

\* the cooperative clients do send: weak fairness of their sends.  The event
\* loop runs every task that is ready (its ready queue is FIFO): a handler
\* whose readline can return does not stay suspended for ever, which is weak
\* fairness of its read steps, Ready(c) being their enabling condition.
\* Nothing is assumed of the stalling clients.
FairStall ==
    /\ WF_vars(ClientSend("h2", {HttpPlain}, 1))
    /\ WF_vars(ClientSend("s2", {<<"root", "CRLF", "toor", "CRLF">>}, MAX_ATTEMPTS))
    /\ WF_vars(ClientSend("f2", {<<"PASS", "SP", "b", "CRLF", "Quit", "CRLF">>}, 1))
    /\ \A c \in Cooperative : []<>(~Ready(c))

SpecStall == Init /\ [][NextStall]_vars /\ FairStall

\* three threads calling log_event on one logger, on a disk that may fail,
\* while the clock moves on once
NextThreads ==
    \/ (clock < 1 /\ Tick)
    \/ DbFault
    \/ \E t \in Threads : ThreadBuild(t)
    \/ \E t \in Threads : ThreadAcquire(t)
    \/ \E t \in Threads : ThreadAppend(t)
    \/ \E t \in Threads : ThreadExecute(t)
    \/ \E t \in Threads : ThreadCommit(t)

SpecThreads == Init /\ [][NextThreads]_vars

\* what a scanner may write to the SSH listener: its name as username and as
\* password, a probed path and an injection
ScanSshChunks ==
    { <<"sqlmap", "CRLF", "sqlmap", "CRLF">>,
      <<"/", "wp-login", "CRLF", "select", "CRLF">> }

\* and to the FTP listener: its name as verb and as argument, a probed path
\* and an injection
ScanFtpChunks ==
    { <<"sqlmap", "SP", "x", "CRLF", "USER", "SP", "sqlmap", "CRLF">>,
      <<"LIST", "SP", "/", "wp-login", "CRLF", "PASS", "SP", "select", "CRLF">> }

\* the SSH and the FTP listener, each with one client that sends scanner
\* signatures, on a disk that may fail
NextScan ==
    \/ DbFault
    \/ SshAccept("s1", {"10.0.0.1"}, 1)
    \/ ClientSend("s1", ScanSshChunks, 2)
    \/ SshReadUser("s1")
    \/ SshReadPass("s1")
    \/ FtpAccept("f1", {"10.0.0.1"}, 1)
    \/ ClientSend("f1", ScanFtpChunks, 2)
    \/ FtpReadLine("f1")

SpecScan == Init /\ [][NextScan]_vars

\* the HTTP listener with a client at each of two addresses, one request per
\* connection, while time passes; the disk works
NextIso ==
    \/ Tick
    \/ HttpAccept("h1", {"10.0.0.1"}, MaxIsoConn)
    \/ HttpAccept("h2", {"10.0.0.2"}, 2)
    \/ ClientSend("h1", {HttpPlain}, 1)
    \/ ClientSend("h2", {HttpPlain}, 1)
    \/ \E c \in HttpConns :
          \/ HttpReadRequestLine(c)
          \/ HttpReadHeader(c)

SpecIso == Init /\ [][NextIso]_vars

---------------------------------------------------------------------------
(* What the claims speak about *)

\* the positions of the in-memory list that connection c wrote
EventIdx(c) == {i \in 1..Len(events) : events[i].sid = c}
EventsOf(c) == Cardinality(EventIdx(c))

\* the bytes of the client's stream that the handler has read
Consumed(c) == SubSeq(peer[c].log, 1, Len(peer[c].log) - Len(net[c]))

\* the first line of a byte stream: up to its first line ending, or all of it
FirstLine(bs) == IF First(bs, "CRLF") > 0 THEN SubSeq(bs, 1, First(bs, "CRLF")) ELSE bs

\* a request line that yields at least a method and a path
RequestParses(line) ==
    /\ line # <<>>
    /\ ~DecodeFails(line)
    /\ Len(Split(Strip(line, WS))) >= 2

\* the handler of c has read its request line
RequestLineRead(c) == http[c].pc \notin {"idle", "request_line"}

(* C1: an HTTP connection never has more than one Event in the store, and one
   that the handler has finished and whose request line parsed into a method
   and a path has exactly one, with empty meta, whatever else the client sent. *)
C1_OneEventPerRequest ==
    \A c \in HttpConns :
        /\ EventsOf(c) <= 1
        /\ \A i \in EventIdx(c) : events[i].service = "http" /\ events[i].meta = <<>>
        /\ (http[c].pc = "closed" /\ RequestParses(FirstLine(peer[c].log)))
               => EventsOf(c) = 1

\* a finished connection with its one Event and a second, unread request
C1_Witness ==
    \E c \in HttpConns :
        /\ http[c].pc = "closed"
        /\ EventsOf(c) = 1
        /\ RequestParses(FirstLine(net[c]))

(* C2: when the request line is missing (EOF) or has fewer than two tokens,
   the step that reads it closes the connection and changes neither the
   store nor any history, and nothing was written to the client. *)
C2_SilentAbort ==
    [][\A c \in HttpConns :
          (/\ http[c].pc = "request_line"
           /\ http'[c].pc # "request_line"
           /\ ~RequestParses(FirstLine(peer[c].log)))
          => /\ http'[c].pc = "closed"
             /\ http'[c].wclosed
             /\ http'[c].out = <<>>
             /\ UNCHANGED <<history, events, db, txn>>]_vars

\* a connection aborted on a one-token request line while another one logged
C2_Witness ==
    \E c \in HttpConns :
        /\ http[c].pc = "closed"
        /\ peer[c].log # <<>>
        /\ ~RequestParses(FirstLine(peer[c].log))
        /\ http[c].out = <<>>
        /\ events # <<>>

\* the lines of a byte stream, each with its line ending; a last piece without
\* one is a line too (readline returns it at EOF)
RECURSIVE LinesOf(_)
LinesOf(bs) ==
    IF bs = <<>> THEN <<>>
    ELSE IF First(bs, "CRLF") = 0 THEN <<bs>>
    ELSE <<SubSeq(bs, 1, First(bs, "CRLF"))>>
             \o LinesOf(SubSeq(bs, First(bs, "CRLF") + 1, Len(bs)))

\* how often message m was written
Count(out, m) == Cardinality({i \in 1..Len(out) : out[i] = m})

\* the events connection c wrote, in order
EventSeq(c) == SelectSeq(events, LAMBDA e : e.sid = c)

\* the rounds of an SSH session in which both lines were read
SshRounds(c) == Min2(Len(LinesOf(Consumed(c))) \div 2, 3)

(* C3: an SSH session has emitted exactly one LOGIN Event per completed round
   (username line and password line both read), none for a round cut by EOF,
   never more than 3, and it prompts for a username at most once more than it
   has completed rounds. *)
C3_OneLoginPerRound ==
    \A c \in SshConns :
        /\ EventsOf(c) = SshRounds(c)
        /\ EventsOf(c) <= 3
        /\ \A i \in EventIdx(c) :
               events[i].service = "ssh" /\ events[i].request_type = <<"LOGIN">>
        /\ Count(ssh[c].out, SSH_LOGIN_AS) <= EventsOf(c) + 1

\* one round completed, the second cut by EOF at the password
C3_Witness ==
    \E c \in SshConns :
        /\ ssh[c].pc = "closed"
        /\ Len(LinesOf(Consumed(c))) = 3
        /\ EventsOf(c) = 1

(* C4: after the third completed round the server has sent the final rejection
   as its last message and closed, without a fourth prompt; after completed
   rounds 1 and 2 it has sent the retry rejection and prompted again. *)
C4_RejectThenClose ==
    \A c \in SshConns :
        /\ SshRounds(c) = 3
               => /\ ssh[c].out # <<>>
                  /\ ssh[c].out[Len(ssh[c].out)] = SSH_FINAL
                  /\ ssh[c].wclosed
                  /\ Count(ssh[c].out, SSH_LOGIN_AS) = 3
        /\ SshRounds(c) \in {1, 2}
               => /\ Count(ssh[c].out, SSH_RETRY) = SshRounds(c)
                  /\ Count(ssh[c].out, SSH_LOGIN_AS) = SshRounds(c) + 1

\* the lines of a byte stream that are not empty after decoding and stripping
RECURSIVE NonEmpty(_)
NonEmpty(ls) ==
    IF ls = <<>> THEN <<>>
    ELSE LET l == Strip(DecodeReplace(Head(ls)), WS)
         IN  (IF l = <<>> THEN <<>> ELSE <<l>>) \o NonEmpty(Tail(ls))

\* the upper-cased verb of a command line, and the remainder after the first space
Verb(l) == Upper(SubSeq(l, 1, IF First(l, "SP") = 0 THEN Len(l) ELSE First(l, "SP") - 1))
Remainder(l) == IF First(l, "SP") = 0 THEN <<>> ELSE SubSeq(l, First(l, "SP") + 1, Len(l))

\* the commands up to and including the first QUIT
RECURSIVE UpToQuit(_)
UpToQuit(ls) ==
    IF ls = <<>> THEN <<>>
    ELSE IF Verb(Head(ls)) = <<"QUIT">> THEN <<Head(ls)>>
    ELSE <<Head(ls)>> \o UpToQuit(Tail(ls))

\* the non-empty lines an FTP handler has read
FtpCmds(c) == NonEmpty(LinesOf(Consumed(c)))

\* the number of messages that answer the commands: a listing takes three
RECURSIVE Replies(_)
Replies(ls) ==
    IF ls = <<>> THEN 0
    ELSE (IF Verb(Head(ls)) = <<"LIST">> THEN 3 ELSE 1) + Replies(Tail(ls))

(* C5: the Events of an FTP session are, in order, one per non-empty line read
   up to and including the first QUIT, each with the upper-cased verb as
   request_type and the remainder as path; a line that is empty after
   stripping adds no Event and no reply. *)
C5_OneEventPerLine ==
    \A c \in FtpConns :
        LET cmds == UpToQuit(FtpCmds(c))
            evs == EventSeq(c)
        IN  /\ Len(evs) = Len(cmds)
            /\ \A i \in 1..Len(evs) :
                   /\ evs[i].service = "ftp"
                   /\ evs[i].request_type = Verb(cmds[i])
                   /\ evs[i].path = Some(Remainder(cmds[i]))
            /\ Len(ftp[c].out) <= 1 + Replies(cmds)
            /\ ftp[c].pc \in {"read", "closed"} => Len(ftp[c].out) = 1 + Replies(cmds)

\* a session that read an empty line, three commands and QUIT, and left a
\* later line unread
C5_Witness ==
    \E c \in FtpConns :
        /\ ftp[c].pc = "closed"
        /\ Len(LinesOf(Consumed(c))) > Len(FtpCmds(c))
        /\ EventsOf(c) = 4
        /\ net[c] # <<>>

\* the handler has read a QUIT command
QuitRead(c) == \E i \in 1..Len(FtpCmds(c)) : Verb(FtpCmds(c)[i]) = <<"QUIT">>

(* C6: the FTP command loop has ended only if a QUIT or EOF was read; once a
   QUIT is read the goodbye reply is the last message, the connection is
   closed, and QUIT is the last line read. *)
C6_QuitEndsLoop ==
    \A c \in FtpConns :
        /\ ftp[c].pc \in {"closed", "crashed"}
               => QuitRead(c) \/ (peer[c].state = "eof" /\ net[c] = <<>>)
        /\ QuitRead(c)
               => /\ ftp[c].pc = "closed"
                  /\ ftp[c].wclosed
                  /\ ftp[c].out[Len(ftp[c].out)] = FTP_221
                  /\ Verb(FtpCmds(c)[Len(FtpCmds(c))]) = <<"QUIT">>
                  /\ \A i \in 1..(Len(FtpCmds(c)) - 1) : Verb(FtpCmds(c)[i]) # <<"QUIT">>

(* C7: every PASS command read has been answered with "530 Login incorrect.",
   whatever came before it, and no message of a session is a login success. *)
C7_PassAlwaysRejected ==
    \A c \in FtpConns :
        /\ Count(ftp[c].out, FTP_530)
               = Cardinality({i \in 1..Len(FtpCmds(c)) : Verb(FtpCmds(c)[i]) = <<"PASS">>})
        /\ \A i \in 1..Len(ftp[c].out) : ftp[c].out[i].msg # "230 Login successful."

ToolLabels ==
    {"sqlmap", "nikto", "nmap", "w3af", "acunetix", "nessus", "wordpress_scanner",
     "phpmyadmin_scanner", "file_inclusion", "sql_injection"}

\* the span in seconds of the 5 history entries that end at entry n
SpanOfFive(h, n) ==
    MaxOf({h[i].timestamp : i \in (n - 4)..n}) - MinOf({h[i].timestamp : i \in (n - 4)..n})

\* the address all requests of the rate specification come from
RateIp == "10.0.0.1"

(* C8: classify_client answers "scanner" for every tool label on every
   history, and every HTTP Event with a detected tool is stored as "scanner",
   also when it is one of 5 requests within less than 2 seconds. *)
C8_ToolMeansScanner ==
    /\ \A i \in 1..Len(events) :
           (events[i].service = "http" /\ events[i].tool # None)
               => events[i].classification = "scanner"
    /\ \A ip \in IPs : \A t \in ToolLabels :
           classify_client(history[ip], Some(t)) = "scanner"

\* a request with a detected tool that is the 5th within less than 2 seconds
C8_Witness ==
    /\ Len(events) >= 5
    /\ Len(history[RateIp]) = Len(events)
    /\ SpanOfFive(history[RateIp], Len(events)) < 2
    /\ events[Len(events)].tool = Some("sqlmap")
    /\ events[Len(events)].classification = "scanner"

\* requests 1..n of the address all came without a detected tool
NoToolUpTo(n) == \A i \in 1..n : events[i].tool = None

(* C9 as stated: of a sequence of at least 5 tool-less requests from one
   address, the latest is "bot" when the whole sequence arrived within 2
   seconds and "human" when the sequence is spread over more than 2 seconds. *)
C9_WholeSequenceSpan ==
    \A n \in 5..Len(events) :
        (Len(history[RateIp]) = Len(events) /\ NoToolUpTo(n))
            => LET spread == history[RateIp][n].timestamp - history[RateIp][1].timestamp
               IN  /\ spread < 2 => events[n].classification = "bot"
                   /\ spread > 2 => events[n].classification = "human"

(* C9 as amended: of at least 5 requests from one address, a request without a
   detected tool is "bot" when the last 5 arrivals, itself included, span less
   than 2 seconds, and "human" when they span 2 seconds or more. *)
C9_LastFiveSpan ==
    \A n \in 5..Len(events) :
        (Len(history[RateIp]) = Len(events) /\ events[n].tool = None)
            => /\ SpanOfFive(history[RateIp], n) < 2 => events[n].classification = "bot"
               /\ SpanOfFive(history[RateIp], n) >= 2 => events[n].classification = "human"

\* six tool-less requests spread over more than 2 seconds, the sixth a "bot"
C9_Witness ==
    /\ Len(events) >= 6
    /\ Len(history[RateIp]) = Len(events)
    /\ NoToolUpTo(6)
    /\ history[RateIp][6].timestamp - history[RateIp][1].timestamp > 2
    /\ events[6].classification = "bot"

\* a row as the event it was written from
WithoutId(d) == [f \in DOMAIN d \ {"id"} |-> d[f]]

(* C10: the in-memory list holds exactly the events that are durably in the
   table, in the same order, and recent() returns exactly those, newest first. *)
C10_MirrorIsDurable ==
    /\ events = [i \in 1..Len(db) |-> WithoutId(RowToDict(db[i]))]
    /\ LET recent == query_events(Len(events) + 1)
       IN  /\ Len(recent) = Len(db)
           /\ \A i \in 1..Len(recent) : WithoutId(recent[i]) = events[Len(events) - i + 1]

\* the handler of c has left handle_client: by returning, or by an exception
Exited(c) == Handler(c).pc \in {"closed", "crashed"}

\* the messages an SSH session owes for n completed rounds: a rejection each
SshRejections(c) == Count(ssh[c].out, SSH_RETRY) + Count(ssh[c].out, SSH_FINAL)

(* C11: a failing store append crashes no session and costs no response: no
   handler has ended by an exception, an HTTP session that logged its request
   has sent its response, an SSH session has sent a rejection for each round
   it logged, and an FTP session a reply for each command it logged. *)
C11_SessionsSurviveStorageErrors ==
    /\ \A c \in Conns : Handler(c).pc # "crashed"
    /\ \A c \in HttpConns : EventsOf(c) = 1 => Len(http[c].out) = 1
    /\ \A c \in SshConns : SshRejections(c) = EventsOf(c)
    /\ \A c \in FtpConns :
           ftp[c].pc # "idle" => Len(ftp[c].out) = 1 + Replies(UpToQuit(FtpCmds(c)))

(* C12: every handler that has left handle_client, by return or by exception,
   has closed its connection. *)
C12_ExitImpliesClosed ==
    \A c \in Conns : Exited(c) => Handler(c).wclosed

(* C13: the IDs of the table are strictly increasing in the order the rows
   entered it: every step leaves the rows' IDs strictly increasing (so no two
   rows share an ID, equal timestamps or not), and a row that enters the table
   gets an ID larger than that of every row already there. *)
C13_IdsIncrease ==
    [][/\ \A i, j \in 1..Len(Table') : i < j => Table'[i].id < Table'[j].id
       /\ \A k \in (Len(Table) + 1)..Len(Table') :
              \A i \in 1..Len(Table) : Table[i].id < Table'[k].id]_vars

\* rows of two sessions with equal timestamps, committed around a failed append
C13_Witness ==
    /\ Len(db) >= 2
    /\ Len(events) > Len(db)
    /\ \E i, j \in 1..Len(db) :
           /\ i < j
           /\ db[i].sid # db[j].sid
           /\ db[i].timestamp = db[j].timestamp
           /\ db[i].id < db[j].id

(* C14: after every append that succeeds, recent() with a limit that covers
   the table returns every row, the newest first and equal in every field to
   the event just appended (headers and meta after json.dumps and json.loads,
   absent ones as the empty map), and the older events as it returned them
   before. *)
C14_RoundTrip ==
    [][(dbmode = "ok" /\ Len(events') = Len(events) + 1)
          => LET recent == query_events(Len(Table) + 1)'
                 before == query_events(Len(Table))
             IN  /\ Len(recent) = Len(Table')
                 /\ WithoutId(recent[1]) = events'[Len(events')]
                 /\ \A j \in 2..Len(recent) : recent[j] = before[j - 1]]_vars

\* a stored event appended without headers and one appended with headers and meta
C14_Witness ==
    /\ Len(db) >= 2
    /\ \E i, j \in 1..Len(db) :
           /\ query_events(Len(db))[i].headers = EmptyMap
           /\ query_events(Len(db))[j].headers # EmptyMap
           /\ query_events(Len(db))[j].meta # EmptyMap

\* s is an initial part of t
IsPrefix(s, t) == Len(s) <= Len(t) /\ SubSeq(t, 1, Len(s)) = s

\* the rows of the table that connection c wrote
RowsOf(c) == Cardinality({i \in 1..Len(Table) : Table[i].sid = c})

\* the interactions of session c that have completed parsing
Interactions(c) ==
    IF c \in HttpConns
    THEN IF RequestLineRead(c) /\ RequestParses(FirstLine(peer[c].log)) THEN 1 ELSE 0
    ELSE IF c \in SshConns THEN SshRounds(c)
    ELSE Len(UpToQuit(FtpCmds(c)))

(* C15: every step extends the in-memory list, the committed rows and the
   rows of the table (nothing stored is changed, reordered or removed), and a
   session never has more events in the list than interactions it completed,
   nor more rows in the table than events in the list. *)
C15_AppendOnlyOnce ==
    /\ [][IsPrefix(events, events') /\ IsPrefix(db, db') /\ IsPrefix(db \o txn, db' \o txn')]_vars
    /\ [](\A c \in Conns : RowsOf(c) <= EventsOf(c) /\ EventsOf(c) <= Interactions(c))

\* the three handlers have each stored an event, and one append has failed
C15_Witness ==
    /\ \A c \in {"h1", "s1", "f1"} : RowsOf(c) >= 1
    /\ Len(events) > Len(Table)
    /\ Len(db) >= 3

\* the step in which handler c finishes parsing its request
ParseCompletes(c) == http[c].pc \in {"headers", "body"} /\ http'[c].pc = "closed"

(* C16: under every interleaving of HTTP sessions from one address, the step
   in which a session finishes parsing its request appends exactly its own
   timestamp to history[ip] and leaves the rest of the history as it was, the
   classification it stores is the one of the last 5 entries of the history
   with that entry included, no other step changes a history, and the length
   of history[ip] is the number of requests from ip that parsed. *)
C16_HistoryConsistent ==
    /\ [][/\ \A c \in HttpConns :
                ParseCompletes(c)
                    => LET ip == http[c].ip
                           h == history'[ip]
                           ev == events'[Len(events')]
                       IN  /\ history' = [history EXCEPT ![ip] = Append(@, [timestamp |-> clock])]
                           /\ ev.sid = c /\ ev.timestamp = h[Len(h)].timestamp
                           /\ ev.classification =
                                  IF ev.tool # None THEN "scanner"
                                  ELSE IF Len(h) >= 5 /\ SpanOfFive(h, Len(h)) < 2 THEN "bot"
                                  ELSE "human"
          /\ (\A c \in HttpConns : ~ParseCompletes(c)) => history' = history]_vars
    /\ [](\A ip \in IPs :
              Len(history[ip])
                  = Cardinality({i \in 1..Len(events) :
                                    events[i].service = "http" /\ events[i].ip = ip}))

\* the fifth request of the address, classified "bot" on a window that holds
\* its own entry, while the other session is in the middle of its request
C16_Witness ==
    /\ Len(history[RateIp]) >= 5
    /\ events[Len(events)].sid = "h2"
    /\ events[Len(events)].classification = "bot"
    /\ events[Len(events) - 1].sid = "h1"
    /\ http["h1"].pc = "headers"
    /\ \E i \in 1..4 : events[i].sid = "h2"

(* C17: every Event in the store, whichever handler produced it, has a
   classification that is one of human, bot, scanner. *)
C17_ClassificationInRange ==
    /\ \A i \in 1..Len(events) : events[i].classification \in {"human", "bot", "scanner"}
    /\ \A i \in 1..Len(Table) : Table[i].classification \in {"human", "bot", "scanner"}

\* the header names of a request that name the User-Agent, in any letter case
UserAgentKeys(headers) == {k \in DOMAIN headers : Lower(k) = <<"user-agent">>}

\* the first entry of the signature table with a pattern in text, 0 if none
FirstSignature(text) ==
    IF \E i \in 1..Len(scanner_signatures) : SigMatches(i, text)
    THEN MinOf({i \in 1..Len(scanner_signatures) : SigMatches(i, text)})
    ELSE 0

\* the label the path rule and then the SQL keyword rule give
PathOrSqlLabel(path, payload) ==
    IF path # None /\ (Contains(Lower(path[1]), "wp-login") \/ Contains(Lower(path[1]), "wp-admin"))
    THEN Some("wordpress_scanner")
    ELSE IF path # None /\ Contains(Lower(path[1]), "phpmyadmin") THEN Some("phpmyadmin_scanner")
    ELSE IF path # None /\ Contains(Lower(path[1]), "/etc/passwd") THEN Some("file_inclusion")
    ELSE IF payload # None
            /\ \E k \in 1..Len(sql_keywords) : Contains(Lower(payload[1]), sql_keywords[k])
    THEN Some("sql_injection")
    ELSE None

\* the tool the precedence rules give a request with one User-Agent header or none
ToolByPrecedence(headers, payload, path) ==
    LET keys == UserAgentKeys(headers)
        source == IF keys # {} THEN Lower(headers[CHOOSE k \in keys : TRUE])
                  ELSE IF payload # None THEN Lower(payload[1])
                  ELSE <<>>
    IN  IF FirstSignature(source) > 0 THEN Some(scanner_signatures[FirstSignature(source)][1])
        ELSE PathOrSqlLabel(path, payload)

(* C18: the tool stored with an HTTP Event is the one the precedence rules
   give: the first signature table entry matching the User-Agent header if the
   request has one, whatever its path and payload; the payload as signature
   source only if it has none; then the path label; then sql_injection for a
   payload with an SQL keyword; else none. *)
C18_DetectPrecedence ==
    \A i \in 1..Len(events) :
        (events[i].service = "http" /\ Cardinality(UserAgentKeys(events[i].headers)) <= 1)
            => events[i].tool
                   = ToolByPrecedence(events[i].headers, events[i].payload, events[i].path)

\* the committed rows that connection c wrote
DurableRowsOf(c) == Cardinality({i \in 1..Len(db) : db[i].sid = c})

\* a listener or a session has been cancelled
SomeCancelled ==
    \/ \E p \in Services : ~sup.listening[p]
    \/ \E c \in Conns : Handler(c).pc = "cancelled"

(* C19: once a listener or a session has been cancelled, every append of a
   task that has exited is whole: its event is in the in-memory list and in
   the durable table, or in neither; and every history entry belongs to a
   request that was classified and logged. *)
C19_CancellationLeavesStoreWhole ==
    SomeCancelled
        => /\ \A c \in Conns : ~Live(c) => EventsOf(c) = DurableRowsOf(c)
           /\ \A ip \in IPs :
                  Len(history[ip])
                      = Cardinality({i \in 1..Len(events) :
                                        events[i].service = "http" /\ events[i].ip = ip})

\* the services that have an event in the store
ServicesLogged == {events[i].service : i \in 1..Len(events)}

(* C20: the events of HTTP, SSH and FTP sessions are in the one store, each
   under its own service and port; the interrupt stops every listener and
   cancels every session in flight in the same step, and after it no
   connection is accepted, no handler takes a step and no event is stored. *)
C20_SharedStoreAndInterrupt ==
    /\ [](/\ \A i \in 1..Len(events) :
                 <<events[i].service, events[i].port>>
                     = IF events[i].sid \in HttpConns THEN <<"http", HTTP_PORT>>
                       ELSE IF events[i].sid \in SshConns THEN <<"ssh", SSH_PORT>>
                       ELSE <<"ftp", FTP_PORT>>
          /\ \A c \in HttpConns : http[c].out # <<>> => EventsOf(c) = 1
          /\ \A c \in SshConns : SshRejections(c) <= EventsOf(c)
          /\ \A c \in FtpConns : Len(ftp[c].out) > 1 => EventsOf(c) >= 1)
    /\ [][/\ (~sup.interrupted /\ sup'.interrupted)
                => /\ \A p \in Services : ~sup'.listening[p]
                   /\ \A c \in Conns : ~Live(c)'
          /\ sup.interrupted
                => UNCHANGED <<sup, accepted, http, ssh, ftp, events, db, txn, history>>]_vars

\* interrupted after all three handlers stored an event, with the SSH and the
\* FTP session cancelled in flight
C20_Witness ==
    /\ sup.interrupted
    /\ ServicesLogged = Services
    /\ ssh["s1"].pc = "cancelled"
    /\ ftp["f1"].pc = "cancelled"

\* a Content-Length value the handler cannot use: not an integer, or negative
BadLength(headers) ==
    /\ CL_KEY \in DOMAIN headers
    /\ headers[CL_KEY] # <<>>
    /\ (ParseInt(headers[CL_KEY]) = None \/ ParseInt(headers[CL_KEY])[1] < 0)

\* the step in which reading the body of session c's request fails: int() or
\* readexactly() raises at the end of the headers, or EOF cuts the body short
BodyFails(c) ==
    \/ http[c].pc = "headers" /\ http'[c].pc = "closed" /\ BadLength(http'[c].headers)
    \/ http[c].pc = "body" /\ http'[c].pc = "closed" /\ Len(net[c]) < http[c].length

(* C21: the step in which the body read of an HTTP request fails (the
   Content-Length is not an integer or negative, or EOF comes before the
   declared bytes) emits the session's Event with an absent payload, appends
   the client's history entry and sends the response. *)
C21_BodyFailureKeepsSession ==
    [][\A c \in HttpConns :
          BodyFails(c)
              => /\ Len(events') = Len(events) + 1
                 /\ events'[Len(events')].sid = c
                 /\ events'[Len(events')].payload = None
                 /\ history'[http[c].ip] = Append(history[http[c].ip], [timestamp |-> clock])
                 /\ Len(http'[c].out) = 1
                 /\ http'[c].out[1].status = "200 OK"]_vars

\* the step in which session c reads a request line that does not parse
RequestLineFails(c) ==
    /\ http[c].pc = "request_line"
    /\ http'[c].pc # "request_line"
    /\ ~RequestParses(ReadLine(c))

(* C22 as stated: a failed Content-Length body read, like an unparseable
   request line, ends the session without an Event, and the listener goes on. *)
C22_BodyFailureAborts ==
    [][\A c \in HttpConns :
          /\ (RequestLineFails(c) \/ BodyFails(c))
                 => /\ http'[c].pc = "closed"
                    /\ http'[c].out = <<>>
                    /\ UNCHANGED <<events, db, txn, history>>
          /\ sup'.listening["http"]
          /\ http'[c].pc # "crashed"]_vars

(* C22 as amended: an unparseable request line ends the session without an
   Event, a history entry or a response; a failed Content-Length body read
   does not: the request is handled with an absent body and its one Event,
   with an absent payload, enters the store; neither stops the listener nor
   ends the handler by an exception. *)
C22_OnlyRequestLineAborts ==
    [][\A c \in HttpConns :
          /\ RequestLineFails(c)
                 => /\ http'[c].pc = "closed"
                    /\ http'[c].out = <<>>
                    /\ UNCHANGED <<events, db, txn, history>>
          /\ BodyFails(c)
                 => /\ http'[c].pc = "closed"
                    /\ Len(events') = Len(events) + 1
                    /\ IsPrefix(events, events')
                    /\ events'[Len(events')].sid = c
                    /\ events'[Len(events')].payload = None
                    /\ Len(history'[http[c].ip]) = Len(history[http[c].ip]) + 1
          /\ sup'.listening["http"]
          /\ http'[c].pc # "crashed"]_vars

\* a request with an unusable Content-Length has left its Event, and the
\* listener has accepted the next connection, which sent a one-word request line
C22_Witness ==
    /\ accepted["h1"] = 2
    /\ Len(events) = 1
    /\ BadLength(events[1].headers)
    /\ events[1].payload = None
    /\ http["h1"].pc = "closed"
    /\ http["h1"].out = <<>>
    /\ peer["h1"].log = <<"POST", "CRLF">>

\* the committed rows that connection c wrote, in order
DurableSeq(c) == SelectSeq(db, LAMBDA r : r.sid = c)

\* the n-th Event of connection c is in the in-memory list and, equal in every
\* field, in the durable table
Recorded(c, n) ==
    /\ n <= Len(EventSeq(c))
    /\ n <= Len(DurableSeq(c))
    /\ WithoutId(RowToDict(DurableSeq(c)[n])) = EventSeq(c)[n]

\* what an FTP handler writes in answer to the commands of the events evs
RECURSIVE RepliesTo(_)
RepliesTo(evs) ==
    IF evs = <<>> THEN <<>> ELSE FtpReply(Head(evs).request_type) \o RepliesTo(Tail(evs))

\* the commands of FTP session c that have been answered: all it logged, or
\* all but the last
FtpAnswered(c) ==
    IF ftp[c].out = <<FTP_GREETING>> \o RepliesTo(EventSeq(c))
    THEN Len(EventSeq(c))
    ELSE Len(EventSeq(c)) - 1

(* C23: whenever a reply has been written its Event is already recorded, in
   the in-memory list and in the durable table: an HTTP response implies the
   session's Event of that request, the n-th SSH rejection implies the Event
   of round n, and the replies of an FTP session are the answers to its first
   k Events, each recorded, where k is the number of its Events or one less. *)
C23_EventBeforeReply ==
    /\ \A c \in HttpConns :
           http[c].out # <<>>
               => /\ Len(EventSeq(c)) = 1
                  /\ Recorded(c, 1)
                  /\ EventSeq(c)[1].request_type = http[c].method
                  /\ EventSeq(c)[1].path = Some(http[c].path)
    /\ \A c \in SshConns :
           \A n \in 1..SshRejections(c) :
               /\ Recorded(c, n)
               /\ EventSeq(c)[n].request_type = <<"LOGIN">>
               /\ EventSeq(c)[n].classification = IF n > 1 THEN "bot" ELSE "unknown"
    /\ \A c \in FtpConns :
           ftp[c].pc # "idle"
               => /\ FtpAnswered(c) >= 0
                  /\ ftp[c].out
                         = <<FTP_GREETING>> \o RepliesTo(SubSeq(EventSeq(c), 1, FtpAnswered(c)))
                  /\ \A n \in 1..FtpAnswered(c) : Recorded(c, n)

\* the HTTP response and two SSH rejections are written, and the FTP session
\* has logged a second command whose append failed before the reply
C23_Witness ==
    /\ http["h1"].out # <<>>
    /\ SshRejections("s1") = 2
    /\ ftp["f1"].pc = "crashed"
    /\ EventsOf("f1") = 2
    /\ Count(ftp["f1"].out, FTP_530) = 1
    /\ Len(ftp["f1"].out) = 2

(* C24: the Events of an SSH session are classified by the round alone,
   "unknown" for the first completed round and "bot" for the second and third;
   an FTP Event is "bot" exactly when its upper-cased verb is USER, PASS or
   LIST and "unknown" otherwise; this holds whatever the HTTP history of the
   address is, and no step of an SSH or FTP handler changes any history. *)
C24_LocalClassification ==
    /\ [](/\ \A c \in SshConns : \A n \in 1..Len(EventSeq(c)) :
                 EventSeq(c)[n].classification = IF n = 1 THEN "unknown" ELSE "bot"
          /\ \A c \in FtpConns : \A n \in 1..Len(EventSeq(c)) :
                 /\ EventSeq(c)[n].request_type = Verb(UpToQuit(FtpCmds(c))[n])
                 /\ EventSeq(c)[n].classification
                        = IF Verb(UpToQuit(FtpCmds(c))[n]) \in {<<"USER">>, <<"PASS">>, <<"LIST">>}
                          THEN "bot" ELSE "unknown")
    /\ [][(ssh' # ssh \/ ftp' # ftp) => history' = history]_vars

\* the address is a "bot" to the Classification Engine, and after that its
\* first SSH round and an FTP command outside USER, PASS, LIST were stored as
\* "unknown"; the third SSH round and a lower-case "user" are "bot"
C24_Witness ==
    /\ Len(EventSeq("s1")) = 3
    /\ EventSeq("s1")[3].classification = "bot"
    /\ \E i, j, k \in 1..Len(events) :
           /\ i < j /\ i < k
           /\ events[i].service = "http" /\ events[i].classification = "bot"
           /\ events[j].service = "ssh" /\ events[j].classification = "unknown"
           /\ events[k].service = "ftp" /\ events[k].classification = "unknown"
    /\ \E k \in 1..Len(events) :
           events[k].request_type = <<"USER">> /\ events[k].classification = "bot"

\* session a has stalled: its handler waits for a line, and its client has
\* sent all it will send and keeps the connection open
Stalled(a) ==
    /\ Live(a)
    /\ peer[a].state = "open"
    /\ peer[a].sent = 1
    /\ ~Contains(net[a], "CRLF")

\* session c has read all its input, stored its Events and completed
Served(c) ==
    /\ Handler(c).pc = "closed"
    /\ Handler(c).wclosed
    /\ net[c] = <<>>
    /\ EventsOf(c) = IF c \in SshConns THEN MAX_ATTEMPTS ELSE IF c \in FtpConns THEN 2 ELSE 1
    /\ RowsOf(c) = EventsOf(c)

(* C25: while a session on any of the listeners is stalled in the middle (its
   client sends nothing further and does not disconnect), every other session
   in flight, on the same or another listener, still reads its input, stores
   its Events and completes. *)
C25_StalledSessionBlocksNobody ==
    \A c \in Cooperative :
        (Live(c) /\ \E a \in Stallers : Stalled(a)) ~> Served(c)

\* the three stalled sessions are still waiting and the three others are done
C25_Witness ==
    /\ \A a \in Stallers : Stalled(a)
    /\ \A c \in Cooperative : Served(c)
    /\ http["h1"].pc = "headers"
    /\ ssh["s1"].pc = "read_pass"
    /\ ftp["f1"].pc = "read"

(* C26: a request without a detected tool is stored as "bot" if and only if
   it is at least the 5th of its address and the last 5 timestamps of the
   history, its own included, span strictly less than 2 seconds, and as
   "human" otherwise (so the first four are "human", and so is a span of
   exactly 2 seconds); and on every prefix of the history classify_client
   gives what it gives on the last 5 entries alone. *)
C26_ExactlyLastFive ==
    LET h == history[RateIp]
    IN  /\ \A n \in 1..Len(events) :
               (Len(h) = Len(events) /\ events[n].tool = None)
                   => events[n].classification
                          = IF n >= WINDOW /\ SpanOfFive(h, n) < BOT_SPAN THEN "bot" ELSE "human"
        /\ \A k \in 0..Len(h) :
               classify_client(SubSeq(h, 1, k), None)
                   = classify_client(LastN(SubSeq(h, 1, k), WINDOW), None)
        /\ \A k \in 0..Min2(Len(h), WINDOW - 1) :
               classify_client(SubSeq(h, 1, k), None) = "human"

\* four "human" requests, a fifth within a second of them stored as "bot", and
\* a sixth exactly 2 seconds after the second stored as "human", although the
\* whole history spans more
C26_Witness ==
    /\ Len(events) = 6
    /\ Len(history[RateIp]) = 6
    /\ NoToolUpTo(6)
    /\ \A n \in 1..4 : events[n].classification = "human"
    /\ events[5].classification = "bot"
    /\ SpanOfFive(history[RateIp], 6) = 2
    /\ events[6].classification = "human"
    /\ history[RateIp][6].timestamp - history[RateIp][1].timestamp > 2

\* the limits a caller of query_events passes: none, some, all, more than all
QueryLimits == 0..(MaxStoreCalls + 1)

\* the ids of the rows a SELECT sees
TableIds == { Table[i].id : i \in 1..Len(Table) }

\* C27: recent(limit) returns min(limit, number of stored events) events; they
\* are the stored events with the largest ids, each with the columns of its
\* row, in strictly descending id order.  query_events reads the table and
\* writes no variable.
C27_RecentNewestFirst ==
    \A limit \in QueryLimits :
        LET recent == query_events(limit)
            got == { recent[i].id : i \in 1..Len(recent) }
        IN  /\ Len(recent) = Min2(limit, Len(Table))
            /\ got \subseteq TableIds
            /\ \A a \in got, b \in TableIds \ got : a > b
            /\ \A i \in 1..(Len(recent) - 1) : recent[i].id > recent[i + 1].id
            /\ \A i \in 1..Len(recent) :
                   \E k \in 1..Len(Table) : recent[i] = RowToDict(Table[k])

\* three events are stored, one of them not yet committed, and a query for
\* two of them leaves the oldest out
C27_Witness ==
    /\ Len(Table) = 3
    /\ txn # <<>>
    /\ Len(query_events(2)) = 2
    /\ query_events(2)[1].id = 3
    /\ query_events(2)[2].id = 2
    /\ query_events(0) = <<>>
    /\ Len(query_events(MaxStoreCalls + 1)) = 3

\* thread t is inside `with self._lock:` of log_event
InSection(t) == thr[t].pc \in {"locked", "appended", "inserted"}

\* mirror entry e belongs to a call whose INSERT raised
LostCall(e) == \E k \in thr[e.sid].lost : e.path = Some(<<"/", ToString(k)>>)

\* mirror entry e belongs to the call under way, appended and not yet inserted
PendingCall(e) == thr[e.sid].pc = "appended" /\ thr[e.sid].ev = Some(e)

\* the mirror without the events that have no row: those lost and the pending one
MirrorStored == SelectSeq(events, LAMBDA e : ~LostCall(e) /\ ~PendingCall(e))

\* the table in ascending id order, each row as the event it was written from
TableEvents == [i \in 1..Len(Table) |-> WithoutId(RowToDict(Table[i]))]

\* C28: with several threads calling append at once, at most one of them is
\* inside the critical section and it is the one that holds the lock; every
\* row is one whole event of one caller; and the events of the mirror that
\* have a row stand in the mirror in the ascending-id order of the table.
C28_OneAppendAtATime ==
    /\ Cardinality({t \in Threads : InSection(t)}) <= 1
    /\ \A t \in Threads : InSection(t) <=> lock = Some(t)
    /\ \A i \in 1..Len(Table) : Table[i].id = i
    /\ TableEvents = MirrorStored

\* two threads have appended and a third is inside the critical section; the
\* mirror and the table hold an event with a later timestamp before one
\* with an earlier timestamp
C28_Witness ==
    /\ Len(db) >= 2
    /\ TableEvents = MirrorStored
    /\ db[1].sid # db[2].sid
    /\ db[1].timestamp > db[2].timestamp
    /\ events[1].timestamp > events[2].timestamp
    /\ \E t \in Threads : InSection(t)

\* the events the SSH and the FTP handler emitted
Emulated == { i \in 1..Len(events) : events[i].service \in {"ssh", "ftp"} }

\* C29: every event of the SSH and of the FTP handler has no detected tool,
\* in the in-memory list and in the table, whatever the client sent as
\* username, password, verb or argument.
C29_NoToolOnSshFtp ==
    /\ \A i \in Emulated : events[i].tool = None
    /\ \A k \in 1..Len(Table) :
           Table[k].service \in {"ssh", "ftp"} => Table[k].tool = None

\* stored: an SSH round with username and password "sqlmap", an FTP command
\* whose verb is sqlmap and one whose argument is sqlmap, none with a tool
C29_Witness ==
    /\ \E i \in Emulated :
           /\ events[i].service = "ssh"
           /\ events[i].path = Some(<<"sqlmap">>)
           /\ events[i].payload = Some(<<"sqlmap">>)
           /\ events[i].tool = None
    /\ \E i \in Emulated :
           /\ events[i].service = "ftp"
           /\ events[i].request_type = <<"SQLMAP">>
           /\ events[i].tool = None
    /\ \E i \in Emulated :
           /\ events[i].service = "ftp"
           /\ events[i].path = Some(<<"sqlmap">>)
           /\ events[i].tool = None
    /\ \E k \in 1..Len(db) : db[k].service = "ftp" /\ db[k].path = Some(<<"sqlmap">>)

\* the events of the address of events[i], up to and including events[i]
OwnEvents(i) == SelectSeq(SubSeq(events, 1, i), LAMBDA e : e.ip = events[i].ip)

\* the history that the requests of one address alone leave behind
OwnHistory(evs) == [m \in 1..Len(evs) |-> [timestamp |-> evs[m].timestamp]]

\* C30: a step of the HTTP handler changes the history of the address of the
\* connection it serves and of no other; every history only grows at its
\* end; and every request is classified as its own address's requests alone
\* determine, whatever other addresses sent in between.
C30_PerIpIsolation ==
    /\ [][\A b \in IPs :
             /\ IsPrefix(history[b], history'[b])
             /\ history'[b] # history[b]
                   => \E c \in HttpConns : http[c].ip = b /\ http'[c].pc # http[c].pc]_vars
    /\ [](\A i \in 1..Len(events) :
             /\ events[i].classification
                   = classify_client(OwnHistory(OwnEvents(i)), events[i].tool)
             /\ IsPrefix(OwnHistory(OwnEvents(i)), history[events[i].ip]))

\* the fifth request of one address within a second is a bot's, with two
\* requests of the other address among them, which stay a human's
C30_Witness ==
    /\ Len(events) = 7
    /\ events[1].ip = "10.0.0.1"
    /\ events[2].ip = "10.0.0.2"
    /\ events[6].ip = "10.0.0.2"
    /\ events[7].ip = "10.0.0.1"
    /\ events[7].classification = "bot"
    /\ events[6].classification = "human"
    /\ Len(history["10.0.0.1"]) = 5
    /\ Len(history["10.0.0.2"]) = 2

====
